---- MODULE Spec2Model ----
(***************************************************************************)
(* Model of the workspace/environment API routes of open-agent-ide:        *)
(*   - GET  /api/workspaces/[id]/opencode-session   (session probe)        *)
(*   - PUT  /api/workspaces/[id]/environments       (configuration update) *)
(*   - POST /api/environments, PUT/DELETE /api/environments/[id]           *)
(*   - the dashboard's readers of a stored variables payload               *)
(*   - merge of an ordered list of environments                            *)
(* Text is modelled as a sequence of character codes, a Buffer as a        *)
(* sequence of bytes (0..255).                                             *)
(***************************************************************************)
EXTENDS Integers, Sequences, FiniteSets, TLC

VARIABLES
    \* ---- persisted store (prisma) ----
    workspaces,     \* workspace id -> [userId, status]
    environments,   \* environment table: sequence of rows [id, userId, variables], in store order
    links,          \* workspaceEnvironment table: workspace id -> sequence of environment ids
    nextEnvId,      \* number of environment ids handed out so far
    \* ---- the request being served by the store routes ----
    req,            \* the request: [op, caller, ws, env, isArray, ids, name, variables]
    rPc,            \* position of its handler
    rResp,          \* its response: [status, envs]
    rSync,          \* calls of syncEnvironmentToWorkspaces it made: sequence of [ws, envs]
    rLinksBefore,   \* the link table when the request arrived
    rEnvsBefore,    \* the environment rows when the request arrived
    rWrites,        \* number of store writes it made
    environmentsToSync, \* the handler's local environmentsToSync (environment ids, in order)
    linkedWorkspaces,   \* the handler's local linkedWorkspaces the sync loop has still to visit
    \* ---- session probe ----
    pPc,            \* position of the probe's GET handler
    pCaller,        \* session user of the probe request (NoUser: unauthenticated)
    pWs,            \* workspace id of the probe request
    wire,           \* bytes the attached exec stream has still to deliver
    pRaw,           \* all the bytes the attached exec stream carries, from its first to its last
    chunks,         \* Buffers pushed by the 'data' listener
    streamState,    \* "none" | "open" | "stalled"
    sessionId,      \* the handler's local sessionId
    findResult,     \* the handler's local findResult
    pResp,          \* the probe's response
    pPrimary,       \* what the primary strategy's execAndParse returned
    pThrew,         \* which engine call threw: "none" | "exec1" | "start1" | "exec2" | "start2"
    pFallback,      \* TRUE once the fallback strategy's exec was attempted
    \* ---- the dashboard (browser) ----
    initialEnvironments, \* env.variables of the environments the dashboard was given, in list order
    rendered,       \* what the last dashboard function applied to them gave
    \* ---- the environment merge engine ----
    orderedEnvironments, \* the input of merge: variable maps, in merge order
    merged,         \* the result of merge
    \* ---- the workspace lifecycle manager (one workspace) ----
    wsStatus,       \* the workspace's persisted status
    containers,     \* container role -> its state in the engine: "absent" | "created" | "running" | "stopped"
    life,           \* the lifecycle operation in progress or just ended, with what it did
    stopCalls,      \* number of stop calls in a row that found the workspace stopped
    \* ---- a second configuration update, served at the same time as the first ----
    req2,           \* its request
    rPc2,           \* position of its handler
    rResp2,         \* its response
    \* ---- the routing label builder ----
    routeIds,       \* the two workspace ids hosts are built for
    routeHosts      \* the hosts built: sequence of [id, role, host]

storeVars == <<workspaces, environments, links, nextEnvId>>
reqVars   == <<req, rPc, rResp, rSync, rLinksBefore, rEnvsBefore, rWrites, environmentsToSync, linkedWorkspaces>>
probeVars == <<pPc, pCaller, pWs, wire, pRaw, chunks, streamState, sessionId, findResult,
               pPrimary, pResp, pThrew, pFallback>>
pureVars  == <<initialEnvironments, rendered, orderedEnvironments, merged>>
lifeVars  == <<wsStatus, containers, life, stopCalls>>
concVars  == <<req2, rPc2, rResp2>>
routeVars == <<routeIds, routeHosts>>
restVars  == <<lifeVars, concVars, routeVars>>
vars      == <<storeVars, reqVars, probeVars, pureVars, restVars>>

(***************************************************************************)
(* Bounds of the model.                                                    *)
(***************************************************************************)
MaxChunks == 2      \* most 'data' events one exec stream delivers
MaxEnvs   == 2      \* most environments ever created
MaxShown  == 2      \* most environments the dashboard is given
MaxMerge  == 3      \* most environments merge is given
MaxIdLen  == 2      \* most characters of a workspace id hosts are built for
MaxStops  == 2      \* most stop calls in a row on a stopped workspace

(***************************************************************************)
(* Users, workspaces.                                                      *)
(***************************************************************************)
NoUser == "anonymous"
Users == {"u1", "u2"}
Callers == Users \cup {NoUser}
WorkspaceIds == {"w1", "w2", "w3"}
\* An id no workspace has.
UnknownWorkspace == "w9"

InitWorkspaces ==
    [w \in WorkspaceIds |->
        CASE w = "w1" -> [userId |-> "u1", status |-> "running"]
          [] w = "w2" -> [userId |-> "u1", status |-> "stopped"]
          [] OTHER    -> [userId |-> "u2", status |-> "running"]]

\* As FindWorkspace, without the userId of the where clause.
FindWorkspace_AnyOwner(id, userId) ==
    id \in DOMAIN workspaces

\* prisma.workspace.findUnique / findFirst ({ where: { id, userId } })
FindWorkspace(id, userId) ==
    id \in DOMAIN workspaces /\ workspaces[id].userId = userId

(***************************************************************************)
(* Text helpers (methods of String).                                        *)
(***************************************************************************)
\* "ses_"
SesPrefix == <<115, 101, 115, 95>>

\* sessionId.startsWith('ses_')
StartsWith(s, p) == Len(s) >= Len(p) /\ SubSeq(s, 1, Len(p)) = p

\* White space and line terminators removed by String.prototype.trim
IsWhiteSpace(c) == c \in {9, 10, 11, 12, 13, 32, 160, 5760, 8232, 8233, 8239, 8287, 12288, 65279}
                   \/ c \in 8192..8202

RECURSIVE TrimStart(_)
TrimStart(s) ==
    IF s = <<>> THEN <<>>
    ELSE IF IsWhiteSpace(Head(s)) THEN TrimStart(Tail(s)) ELSE s

RECURSIVE TrimEnd(_)
TrimEnd(s) ==
    IF s = <<>> THEN <<>>
    ELSE IF IsWhiteSpace(s[Len(s)]) THEN TrimEnd(SubSeq(s, 1, Len(s) - 1)) ELSE s

\* output.trim()
Trim(s) == TrimEnd(TrimStart(s))

\* [a-zA-Z0-9_]
IsTokenChar(c) == c \in 48..57 \/ c \in 65..90 \/ c \in 97..122 \/ c = 95

(***************************************************************************)
(* Buffer helpers.                                                         *)
(***************************************************************************)
Min(a, b) == IF a < b THEN a ELSE b

\* rawOutput.readUInt32BE(off): big-endian, off is a 0-based offset
ReadUInt32BE(buf, off) ==
    buf[off + 1] * 16777216 + buf[off + 2] * 65536 + buf[off + 3] * 256 + buf[off + 4]

\* rawOutput.slice(from, to): 0-based, end exclusive, clamped to the buffer
Slice(buf, from, to) == SubSeq(buf, from + 1, Min(to, Len(buf)))

\* buf.toString('utf8') on the bytes the model uses: an ASCII byte is its
\* own character; a byte that cannot start a UTF-8 sequence here decodes to
\* U+FFFD.
Utf8ToString(buf) == [i \in 1..Len(buf) |-> IF buf[i] < 128 THEN buf[i] ELSE 65533]

\* Buffer.concat(chunks)
RECURSIVE BufferConcat(_)
BufferConcat(cs) == IF cs = <<>> THEN <<>> ELSE Head(cs) \o BufferConcat(Tail(cs))

\* As ParseLoop, with the bytes after the last whole header discarded.
RECURSIVE ParseLoop_DropTail(_, _, _)
ParseLoop_DropTail(rawOutput, i, output) ==
    IF ~(i < Len(rawOutput)) THEN output
    ELSE IF i + 8 <= Len(rawOutput)
         THEN LET size    == ReadUInt32BE(rawOutput, i + 4)
                  content == Slice(rawOutput, i + 8, i + 8 + size)
              IN ParseLoop_DropTail(rawOutput, i + 8 + size, output \o Utf8ToString(content))
         ELSE output

\* The parse loop of execAndParse: for (let i = 0; i < rawOutput.length; ) ...
RECURSIVE ParseLoop(_, _, _)
ParseLoop(rawOutput, i, output) ==
    IF ~(i < Len(rawOutput)) THEN output
    ELSE IF i + 8 <= Len(rawOutput)
         THEN LET size    == ReadUInt32BE(rawOutput, i + 4)
                  content == Slice(rawOutput, i + 8, i + 8 + size)
              IN ParseLoop(rawOutput, i + 8 + size, output \o Utf8ToString(content))
         ELSE output \o Utf8ToString(Slice(rawOutput, i, Len(rawOutput)))

\* What execAndParse returns once the stream has ended with these chunks.
ExecAndParse(cs) == Trim(ParseLoop(BufferConcat(cs), 0, <<>>))

(***************************************************************************)
(* Session id pattern: sessionId?.match(/ses_[a-zA-Z0-9_]+/).              *)
(***************************************************************************)
\* JavaScript null / a string, as the value of a nullable string
Null == [isNull |-> TRUE, str |-> <<>>]
Str(s) == [isNull |-> FALSE, str |-> s]

\* The pattern matches with its first character at position i (1-based):
\* the literal "ses_" and at least one token character.
MatchesAt(s, i) ==
    /\ i + 4 <= Len(s)
    /\ SubSeq(s, i, i + 3) = SesPrefix
    /\ IsTokenChar(s[i + 4])

\* The greedy quantifier: the last position of the run of token characters
\* that position j is part of.
RECURSIVE TokenRunEnd(_, _)
TokenRunEnd(s, j) ==
    IF j + 1 <= Len(s) /\ IsTokenChar(s[j + 1]) THEN TokenRunEnd(s, j + 1) ELSE j

\* The regular expression is not anchored: the engine tries each start
\* position from the left and answers the first match.
RECURSIVE MatchFrom(_, _)
MatchFrom(s, i) ==
    IF i + 4 > Len(s) THEN Null
    ELSE IF MatchesAt(s, i) THEN Str(SubSeq(s, i, TokenRunEnd(s, i + 4)))
    ELSE MatchFrom(s, i + 1)

\* As SessionMatch, but answering the whole candidate when the pattern is found
\* in it (sessionId in place of sessionMatch[0]).
SessionMatch_Whole(s) == IF MatchFrom(s, 1).isNull THEN Null ELSE Str(s)

\* As SessionMatch, with the pattern anchored at the start (/^ses_[a-zA-Z0-9_]+/).
SessionMatch_Anchored(s) ==
    IF MatchesAt(s, 1) THEN Str(SubSeq(s, 1, TokenRunEnd(s, 5))) ELSE Null

\* sessionMatch?.[0] || null
SessionMatch(s) == MatchFrom(s, 1)

\* !sessionId || !sessionId.startsWith('ses_')
NeedsFallback(sid) == sid = <<>> \/ ~StartsWith(sid, SesPrefix)

\* findResult && findResult.startsWith('ses_')
FallbackAccepted(fr) == fr # <<>> /\ StartsWith(fr, SesPrefix)

(***************************************************************************)
(* What the container engine can put on an attached exec stream.           *)
(***************************************************************************)
\* n as 4 big-endian bytes
UInt32BE(n) == <<(n \div 16777216) % 256, (n \div 65536) % 256, (n \div 256) % 256, n % 256>>

\* One frame of the multiplexed stream: 8-byte header, then the payload
Frame(type, payload) == <<type, 0, 0, 0>> \o UInt32BE(Len(payload)) \o payload

\* "", "x"
TextPrefixes == {<<>>, <<120>>}
\* "", "ses_", "ses_a1", "no"
TextCores == {<<>>, SesPrefix, SesPrefix \o <<97, 49>>, <<110, 111>>}
\* "", "-c", "\nses_b", "\n"
TextSuffixes == {<<>>, <<45, 99>>, <<10>> \o SesPrefix \o <<98>>, <<10>>}

\* What a command inside the container may print
Texts == {p \o c \o s : p \in TextPrefixes, c \in TextCores, s \in TextSuffixes}

RawStreams ==
    {Frame(1, t) : t \in Texts}
    \cup { <<>>,
           \* stderr "x", then stdout "ses_a1"
           Frame(2, <<120>>) \o Frame(1, SesPrefix \o <<97, 49>>),
           \* "ses_" and "a1" in two stdout frames
           Frame(1, SesPrefix) \o Frame(1, <<97, 49>>),
           \* a frame of stream type 0, then stdout "ses_b"
           Frame(0, <<110, 111>>) \o Frame(1, SesPrefix \o <<98>>),
           \* stdout "ses_b", then 3 bytes of a cut header
           Frame(1, SesPrefix \o <<98>>) \o <<1, 0, 0>>,
           \* a header announcing 9 bytes, followed by 5
           <<1, 0, 0, 0>> \o UInt32BE(9) \o SesPrefix \o <<98>>,
           \* a byte that is no UTF-8 text
           Frame(1, SesPrefix \o <<98, 255>>) }

(***************************************************************************)
(* GET /api/workspaces/[id]/opencode-session                               *)
(***************************************************************************)
ProbeJson(status, error, sid) == [status |-> status, error |-> error, sessionId |-> sid]
NoResponse == ProbeJson(0, "", Null)

\* As CatchResponse, but surfacing the error to the caller.
CatchResponse_Error == ProbeJson(500, "Internal server error", Null)

\* } catch (error) { ... return NextResponse.json({ sessionId: null }) }
CatchResponse == ProbeJson(200, "", Null)

\* return NextResponse.json({ sessionId: sessionMatch[0] }) / ({ sessionId: null })
MatchResponse(sid) == ProbeJson(200, "", SessionMatch(sid))

ProbeLocalsInit ==
    /\ wire = <<>>
    /\ pRaw = <<>>
    /\ chunks = <<>>
    /\ streamState = "none"
    /\ sessionId = <<>>
    /\ findResult = <<>>
    /\ pPrimary = <<>>
    /\ pResp = NoResponse
    /\ pThrew = "none"
    /\ pFallback = FALSE

ProbeInit ==
    /\ pPc = "idle"
    /\ pCaller = NoUser
    /\ pWs = UnknownWorkspace
    /\ ProbeLocalsInit

\* A request arrives.
ProbeRequest(c, w) ==
    /\ pPc \in {"idle", "done"}
    /\ pPc' = "auth"
    /\ pCaller' = c
    /\ pWs' = w
    /\ wire' = <<>>
    /\ pRaw' = <<>>
    /\ chunks' = <<>>
    /\ streamState' = "none"
    /\ sessionId' = <<>>
    /\ findResult' = <<>>
    /\ pPrimary' = <<>>
    /\ pResp' = NoResponse
    /\ pThrew' = "none"
    /\ pFallback' = FALSE
    /\ UNCHANGED <<storeVars, reqVars, pureVars, restVars>>

\* const session = await auth(); if (!session?.user?.id) return 401
ProbeAuth ==
    /\ pPc = "auth"
    /\ IF pCaller = NoUser
       THEN pPc' = "done" /\ pResp' = ProbeJson(401, "Unauthorized", Null)
       ELSE pPc' = "lookup" /\ pResp' = pResp
    /\ UNCHANGED <<pCaller, pWs, wire, pRaw, chunks, streamState, sessionId, findResult,
                   pPrimary, pThrew, pFallback, storeVars, reqVars, pureVars, restVars>>

\* const workspace = await prisma.workspace.findUnique(...); if (!workspace) return 404
ProbeLookup ==
    /\ pPc = "lookup"
    /\ IF FindWorkspace(pWs, pCaller)
       THEN pPc' = "exec1" /\ pResp' = pResp
       ELSE pPc' = "done" /\ pResp' = ProbeJson(404, "Workspace not found", Null)
    /\ UNCHANGED <<pCaller, pWs, wire, pRaw, chunks, streamState, sessionId, findResult,
                   pPrimary, pThrew, pFallback, storeVars, reqVars, pureVars, restVars>>

\* await container.exec({...}) answers an exec handle
ProbeExecCreated ==
    /\ pPc \in {"exec1", "exec2"}
    /\ pPc' = IF pPc = "exec1" THEN "start1" ELSE "start2"
    /\ pFallback' = (pFallback \/ pPc = "exec2")
    /\ UNCHANGED <<pCaller, pWs, wire, pRaw, chunks, streamState, sessionId, findResult,
                   pPrimary, pResp, pThrew, storeVars, reqVars, pureVars, restVars>>

\* await exec.start({ Detach: false }) answers the attached stream
ProbeExecStarted ==
    /\ pPc \in {"start1", "start2"}
    /\ pPc' = IF pPc = "start1" THEN "stream1" ELSE "stream2"
    /\ \E raw \in RawStreams : wire' = raw /\ pRaw' = raw
    /\ chunks' = <<>>
    /\ streamState' = "open"
    /\ UNCHANGED <<pCaller, pWs, sessionId, findResult, pPrimary, pResp, pThrew,
                   pFallback, storeVars, reqVars, pureVars, restVars>>

\* container.exec or exec.start throws: control passes to the catch block
ProbeEngineThrows ==
    /\ pPc \in {"exec1", "start1", "exec2", "start2"}
    /\ pThrew' = pPc
    /\ pFallback' = (pFallback \/ pPc = "exec2")
    /\ pPc' = "done"
    /\ pResp' = CatchResponse
    /\ UNCHANGED <<pCaller, pWs, wire, pRaw, chunks, streamState, sessionId, findResult,
                   pPrimary, storeVars, reqVars, pureVars, restVars>>

\* stream.on('data', chunk => chunks.push(chunk))
StreamData ==
    /\ pPc \in {"stream1", "stream2"}
    /\ streamState = "open"
    /\ wire # <<>>
    /\ Len(chunks) < MaxChunks
    /\ \E k \in 1..Len(wire) :
        /\ Len(chunks) = MaxChunks - 1 => k = Len(wire)
        /\ chunks' = Append(chunks, SubSeq(wire, 1, k))
        /\ wire' = SubSeq(wire, k + 1, Len(wire))
    /\ UNCHANGED <<pPc, pCaller, pWs, pRaw, streamState, sessionId, findResult, pPrimary,
                   pResp, pThrew, pFallback, storeVars, reqVars, pureVars, restVars>>

\* The stream emits nothing more and never emits 'end' (the command in the
\* container does not finish, or the connection is lost): no listener of
\* execAndParse is called again.
StreamStalls ==
    /\ pPc \in {"stream1", "stream2"}
    /\ streamState = "open"
    /\ streamState' = "stalled"
    /\ UNCHANGED <<pPc, pCaller, pWs, wire, pRaw, chunks, sessionId, findResult, pPrimary,
                   pResp, pThrew, pFallback, storeVars, reqVars, pureVars, restVars>>

\* stream.on('end', resolve) for the primary strategy, then lines 50-54 and,
\* when the fallback is not needed, lines 71-78
PrimaryStreamEnd ==
    /\ pPc = "stream1"
    /\ streamState = "open"
    /\ wire = <<>>
    /\ LET out == ExecAndParse(chunks) IN
        /\ sessionId' = out
        /\ pPrimary' = out
        /\ IF NeedsFallback(out)
           THEN pPc' = "exec2" /\ pResp' = pResp
           ELSE pPc' = "done" /\ pResp' = MatchResponse(out)
    /\ streamState' = "none"
    /\ chunks' = <<>>
    /\ UNCHANGED <<pCaller, pWs, wire, pRaw, findResult, pThrew, pFallback, storeVars, reqVars, pureVars, restVars>>

\* stream.on('end', resolve) for the fallback strategy, then lines 64-78
FallbackStreamEnd ==
    /\ pPc = "stream2"
    /\ streamState = "open"
    /\ wire = <<>>
    /\ LET out == ExecAndParse(chunks)
           sid == IF FallbackAccepted(out) THEN out ELSE sessionId
       IN
        /\ findResult' = out
        /\ sessionId' = sid
        /\ pResp' = MatchResponse(sid)
    /\ pPc' = "done"
    /\ streamState' = "none"
    /\ chunks' = <<>>
    /\ UNCHANGED <<pCaller, pWs, wire, pRaw, pPrimary, pThrew, pFallback, storeVars, reqVars, pureVars, restVars>>

\* The steps the probe's handler and its stream can take once a request is in
ProbeStep ==
    \/ ProbeAuth
    \/ ProbeLookup
    \/ ProbeExecCreated
    \/ ProbeExecStarted
    \/ ProbeEngineThrows
    \/ StreamData
    \/ StreamStalls
    \/ PrimaryStreamEnd
    \/ FallbackStreamEnd

ProbeNext ==
    \/ \E c \in Callers, w \in WorkspaceIds \cup {UnknownWorkspace} : ProbeRequest(c, w)
    \/ ProbeStep

(***************************************************************************)
(* The store (prisma): environments and workspace-environment links.       *)
(***************************************************************************)
\* Environment ids are handed out in sequence (cuid()): 1, 2, ...
EnvIdPool == 1..MaxEnvs

Range(f) == {f[i] : i \in DOMAIN f}

StoreInit ==
    /\ workspaces = InitWorkspaces
    /\ environments = <<>>
    /\ links = [w \in WorkspaceIds |-> <<>>]
    /\ nextEnvId = 0

\* The ids of the rows of a result, in the result's order
Ids(rows) == [i \in 1..Len(rows) |-> rows[i].id]

\* prisma.environment.findMany({ where: { id: { in: ids }, userId } }): no
\* orderBy, the rows come in store order
FindManyEnvironments(ids, userId) ==
    SelectSeq(environments, LAMBDA row : row.id \in Range(ids) /\ row.userId = userId)

\* prisma.environment.findFirst({ where: { id, userId } }) finds a row
FindEnvironment(id, userId) ==
    \E i \in 1..Len(environments) :
        environments[i].id = id /\ environments[i].userId = userId

\* if (environments.length !== environmentIds.length) return 403
\* TRUE when the list passes the check
VerifyOwnership_AnyFound(ids, userId) ==
    Len(FindManyEnvironments(ids, userId)) # 0

VerifyOwnership_NoOwnerFilter(ids, userId) ==
    Len(SelectSeq(environments, LAMBDA row : row.id \in Range(ids))) = Len(ids)

\* As VerifyOwnership, with the rows found counted against the distinct ids
\* of the list instead of the list's length.
VerifyOwnership_DistinctIds(ids, userId) ==
    Len(FindManyEnvironments(ids, userId)) = Cardinality(Range(ids))

VerifyOwnership(ids, userId) ==
    Len(FindManyEnvironments(ids, userId)) = Len(ids)

\* prisma.workspaceEnvironment.deleteMany({ where: { workspaceId } })
DeleteManyLinks_Keep(l, w) == l

DeleteManyLinks(l, w) == [l EXCEPT ![w] = <<>>]

\* prisma.workspaceEnvironment.createMany({ data: environmentIds.map(...) }):
\* one row per id, in the order of the list
CreateManyLinks(l, w, ids) == [l EXCEPT ![w] = l[w] \o ids]

\* The rows of createMany refer to environments: a row naming an environment
\* that is not in the store violates the relation and the call throws.
ForeignKeysHold(ids) == \A i \in 1..Len(ids) : \E j \in 1..Len(environments) : environments[j].id = ids[i]

\* prisma.environment.delete({ where: { id } }): "cascade will handle
\* workspace_environments"
DeleteEnvironment(id) ==
    /\ environments' = SelectSeq(environments, LAMBDA row : row.id # id)
    /\ links' = [w \in WorkspaceIds |-> SelectSeq(links[w], LAMBDA e : e # id)]

\* The workspaces an environment is linked to (existingEnvironment.workspaces)
WorkspacesLinkedTo(id) == {w \in WorkspaceIds : id \in Range(links[w])}

(***************************************************************************)
(* Request bodies.                                                         *)
(***************************************************************************)
\* body.variables after request.json(): [t |-> typeof-like tag, text |-> its
\* JSON text (for a string, the string itself)]
Undefined == [t |-> "undefined", text |-> ""]

\* A JSON value as JSON.parse gives it: its type, and its own enumerable
\* properties as Object.entries lists them (key, String(value), typeof value)
JsonValue(t, entries) == [t |-> t, entries |-> entries]
Property(key, value, type) == [key |-> key, value |-> value, type |-> type]

\* JSON.parse(text), on the texts of the model; any other text is no JSON and
\* the call throws a SyntaxError
JsonParse(text) ==
    CASE text = "{}"            -> JsonValue("object", <<>>)
      [] text = "{\"A\":\"1\"}" -> JsonValue("object", <<Property("A", "1", "string")>>)
      [] text = "{\"A\":\"2\"}" -> JsonValue("object", <<Property("A", "2", "string")>>)
      [] text = "{\"A\":1}"     -> JsonValue("object", <<Property("A", "1", "number")>>)
      [] text = "null"          -> JsonValue("null", <<>>)
      [] text = "[]"            -> JsonValue("array", <<>>)
      [] text = "[\"a\"]"       -> JsonValue("array", <<Property("0", "a", "string")>>)
      [] text = "1"             -> JsonValue("number", <<>>)
      [] OTHER                  -> JsonValue("SyntaxError", <<>>)

\* JSON.parse(text) does not throw
JsonParses(text) == JsonParse(text).t # "SyntaxError"

\* variables, POST: if (variables) { string -> JSON.parse; object -> as is }
\* Answers [ok |-> FALSE] for the 400, else the text JSON.stringify(parsedVariables) gives
PostVariables(v) ==
    IF v.t = "undefined" \/ v.t = "null" \/ (v.t = "string" /\ v.text = "")
       \/ (v.t = "number" /\ v.text = "0")
    THEN [ok |-> TRUE, text |-> "{}"]
    ELSE IF v.t = "string"
         THEN IF JsonParses(v.text) THEN [ok |-> TRUE, text |-> v.text]
                                    ELSE [ok |-> FALSE, text |-> ""]
    ELSE IF v.t \in {"object", "array"} THEN [ok |-> TRUE, text |-> v.text]
    ELSE [ok |-> TRUE, text |-> "{}"]

\* variables, PUT: if (variables !== undefined) { string -> JSON.parse; object -> as is }
PutVariables(v) ==
    IF v.t = "string"
    THEN IF JsonParses(v.text) THEN [ok |-> TRUE, text |-> v.text]
                               ELSE [ok |-> FALSE, text |-> ""]
    ELSE IF v.t \in {"object", "array"} THEN [ok |-> TRUE, text |-> v.text]
    ELSE IF v.t = "null" THEN [ok |-> TRUE, text |-> "null"]
    ELSE [ok |-> TRUE, text |-> "{}"]

\* The bodies requests carry: a name (empty or not), and no variables (the
\* environment's variables are left as they are)
BodyVariables == {Undefined}
BodyNames == {"", "dev"}

\* environmentIds of a request: the lists that name no id twice, and the
\* lists that name one id twice
RECURSIVE InjectiveSeqs(_)
InjectiveSeqs(S) ==
    {<<>>} \cup UNION {{<<x>> \o q : q \in InjectiveSeqs(S \ {x})} : x \in S}

BodyIdLists == InjectiveSeqs(EnvIdPool) \cup {<<x, x>> : x \in EnvIdPool}

(***************************************************************************)
(* Requests to the store routes, served one at a time.                     *)
(***************************************************************************)
NoRequest == [op |-> "none", caller |-> NoUser, ws |-> UnknownWorkspace, env |-> 0,
              isArray |-> FALSE, ids |-> <<>>, name |-> "", variables |-> Undefined]

Response(status, envs) == [status |-> status, envs |-> envs]

ReqInit ==
    /\ req = NoRequest
    /\ rPc = "idle"
    /\ rResp = Response(0, <<>>)
    /\ rSync = <<>>
    /\ rLinksBefore = [w \in WorkspaceIds |-> <<>>]
    /\ rEnvsBefore = <<>>
    /\ rWrites = 0
    /\ environmentsToSync = <<>>
    /\ linkedWorkspaces = {}

\* A request arrives
Arrive(r) ==
    /\ rPc = "idle"
    /\ req' = r
    /\ rPc' = "auth"
    /\ rResp' = Response(0, <<>>)
    /\ rSync' = <<>>
    /\ rLinksBefore' = links
    /\ rEnvsBefore' = environments
    /\ rWrites' = 0
    /\ environmentsToSync' = <<>>
    /\ linkedWorkspaces' = {}
    /\ UNCHANGED <<storeVars, probeVars, pureVars, restVars>>

\* The response has been sent: the handler's locals are gone
Return ==
    /\ rPc = "done"
    /\ req' = NoRequest
    /\ rPc' = "idle"
    /\ rResp' = Response(0, <<>>)
    /\ rSync' = <<>>
    /\ rLinksBefore' = [w \in WorkspaceIds |-> <<>>]
    /\ rEnvsBefore' = <<>>
    /\ rWrites' = 0
    /\ environmentsToSync' = <<>>
    /\ linkedWorkspaces' = {}
    /\ UNCHANGED <<storeVars, probeVars, pureVars, restVars>>

\* return NextResponse.json(..., { status })
Respond(status, envs) ==
    /\ rPc' = "done"
    /\ rResp' = Response(status, envs)

\* const session = await auth(); if (!session?.user?.id) return 401
\* (all four handlers begin with it)
Auth ==
    /\ rPc = "auth"
    /\ IF req.caller = NoUser
       THEN Respond(401, <<>>)
       ELSE rPc' = "body" /\ rResp' = rResp
    /\ UNCHANGED <<req, rSync, rLinksBefore, rEnvsBefore, rWrites, environmentsToSync, linkedWorkspaces, storeVars, probeVars, pureVars, restVars>>

\* A pending prisma call throws: the handler's outer catch answers 500
StoreThrows ==
    /\ rPc \in {"findWorkspace", "verify", "deleteMany", "createMany", "findToSync",
                "create", "findEnvironment", "update", "delete"}
    /\ Respond(500, <<>>)
    /\ UNCHANGED <<req, rSync, rLinksBefore, rEnvsBefore, rWrites, environmentsToSync, linkedWorkspaces, storeVars, probeVars, pureVars, restVars>>

(***************************************************************************)
(* PUT /api/workspaces/[id]/environments                                   *)
(***************************************************************************)
PutLinksRequest(c, w, isArray, ids) ==
    Arrive([NoRequest EXCEPT !.op = "putLinks", !.caller = c, !.ws = w,
                             !.isArray = isArray, !.ids = ids])

\* const body = await request.json(); if (!Array.isArray(environmentIds)) return 400
PutLinksBody ==
    /\ rPc = "body" /\ req.op = "putLinks"
    /\ IF ~req.isArray
       THEN Respond(400, <<>>)
       ELSE rPc' = "findWorkspace" /\ rResp' = rResp
    /\ UNCHANGED <<req, rSync, rLinksBefore, rEnvsBefore, rWrites, environmentsToSync, linkedWorkspaces, storeVars, probeVars, pureVars, restVars>>

\* const workspace = await prisma.workspace.findFirst(...); if (!workspace) return 404
PutLinksFindWorkspace ==
    /\ rPc = "findWorkspace" /\ req.op = "putLinks"
    /\ IF ~FindWorkspace(req.ws, req.caller)
       THEN Respond(404, <<>>)
       ELSE /\ rPc' = IF Len(req.ids) > 0 THEN "verify" ELSE "deleteMany"
            /\ rResp' = rResp
    /\ UNCHANGED <<req, rSync, rLinksBefore, rEnvsBefore, rWrites, environmentsToSync, linkedWorkspaces, storeVars, probeVars, pureVars, restVars>>

\* As PutLinksVerify, with the existing links deleted before the ownership
\* check instead of after it.
PutLinksVerify_AfterDelete ==
    /\ rPc = "verify" /\ req.op = "putLinks"
    /\ links' = DeleteManyLinks(links, req.ws)
    /\ rWrites' = rWrites + 1
    /\ IF ~VerifyOwnership(req.ids, req.caller)
       THEN Respond(403, <<>>)
       ELSE rPc' = "createMany" /\ rResp' = rResp
    /\ UNCHANGED <<req, rSync, rLinksBefore, rEnvsBefore, environmentsToSync, linkedWorkspaces,
                   workspaces, environments, nextEnvId, probeVars, pureVars, restVars>>

\* Verify all environments belong to the user, else 403
PutLinksVerify ==
    /\ rPc = "verify" /\ req.op = "putLinks"
    /\ IF ~VerifyOwnership(req.ids, req.caller)
       THEN Respond(403, <<>>)
       ELSE rPc' = "deleteMany" /\ rResp' = rResp
    /\ UNCHANGED <<req, rSync, rLinksBefore, rEnvsBefore, rWrites, environmentsToSync, linkedWorkspaces, storeVars, probeVars, pureVars, restVars>>

\* await prisma.workspaceEnvironment.deleteMany(...)
PutLinksDeleteMany ==
    /\ rPc = "deleteMany" /\ req.op = "putLinks"
    /\ links' = DeleteManyLinks(links, req.ws)
    /\ rWrites' = rWrites + 1
    /\ rPc' = IF Len(req.ids) > 0 THEN "createMany" ELSE "findToSync"
    /\ UNCHANGED <<req, rResp, rSync, rLinksBefore, rEnvsBefore, environmentsToSync, linkedWorkspaces,
                   workspaces, environments, nextEnvId, probeVars, pureVars, restVars>>

\* if (environmentIds.length > 0) await prisma.workspaceEnvironment.createMany(...)
PutLinksCreateMany ==
    /\ rPc = "createMany" /\ req.op = "putLinks"
    /\ IF ForeignKeysHold(req.ids)
       THEN /\ links' = CreateManyLinks(links, req.ws, req.ids)
            /\ rWrites' = rWrites + 1
            /\ rPc' = "findToSync"
            /\ rResp' = rResp
       ELSE /\ Respond(500, <<>>)
            /\ UNCHANGED <<links, rWrites>>
    /\ UNCHANGED <<req, rSync, rLinksBefore, rEnvsBefore, environmentsToSync, linkedWorkspaces,
                   workspaces, environments, nextEnvId, probeVars, pureVars, restVars>>

\* const environmentsToSync = await prisma.environment.findMany(...)
PutLinksFindToSync ==
    /\ rPc = "findToSync" /\ req.op = "putLinks"
    /\ environmentsToSync' = Ids(FindManyEnvironments(req.ids, req.caller))
    /\ rPc' = "sync"
    /\ UNCHANGED <<req, rResp, rSync, rLinksBefore, rEnvsBefore, rWrites, linkedWorkspaces, storeVars, probeVars, pureVars, restVars>>

\* As PutLinksSync, without the try/catch around the sync call: what it
\* throws reaches the handler's outer catch.
PutLinksSync_Propagates ==
    /\ rPc = "sync" /\ req.op = "putLinks"
    /\ \E ok \in BOOLEAN :
        /\ rSync' = Append(rSync, [ws |-> req.ws, envs |-> environmentsToSync, ok |-> ok])
        /\ IF ok THEN Respond(200, environmentsToSync) ELSE Respond(500, <<>>)
    /\ UNCHANGED <<req, rLinksBefore, rEnvsBefore, rWrites, environmentsToSync, linkedWorkspaces, storeVars, probeVars, pureVars, restVars>>

\* try { await syncEnvironmentToWorkspaces(params.id, environmentsToSync) }
\* catch (syncError) { log }; return NextResponse.json({ environments })
\* The call resolves (ok) or throws.
PutLinksSync ==
    /\ rPc = "sync" /\ req.op = "putLinks"
    /\ \E ok \in BOOLEAN :
        rSync' = Append(rSync, [ws |-> req.ws, envs |-> environmentsToSync, ok |-> ok])
    /\ Respond(200, environmentsToSync)
    /\ UNCHANGED <<req, rLinksBefore, rEnvsBefore, rWrites, environmentsToSync, linkedWorkspaces, storeVars, probeVars, pureVars, restVars>>

(***************************************************************************)
(* POST /api/environments                                                  *)
(***************************************************************************)
PostEnvironmentRequest(c, name, v) ==
    /\ nextEnvId < MaxEnvs
    /\ Arrive([NoRequest EXCEPT !.op = "postEnvironment", !.caller = c,
                                !.name = name, !.variables = v])

\* name and variables are validated: 400 on an empty name or unparseable variables
PostEnvironmentBody ==
    /\ rPc = "body" /\ req.op = "postEnvironment"
    /\ IF req.name = "" \/ ~PostVariables(req.variables).ok
       THEN Respond(400, <<>>)
       ELSE rPc' = "create" /\ rResp' = rResp
    /\ UNCHANGED <<req, rSync, rLinksBefore, rEnvsBefore, rWrites, environmentsToSync, linkedWorkspaces, storeVars, probeVars, pureVars, restVars>>

\* await prisma.environment.create({ data: { ..., userId: session.user.id } })
PostEnvironmentCreate ==
    /\ rPc = "create" /\ req.op = "postEnvironment"
    /\ nextEnvId' = nextEnvId + 1
    /\ environments' = Append(environments,
                              [id |-> nextEnvId + 1, userId |-> req.caller,
                               variables |-> PostVariables(req.variables).text])
    /\ rWrites' = rWrites + 1
    /\ Respond(201, <<nextEnvId + 1>>)
    /\ UNCHANGED <<req, rSync, rLinksBefore, rEnvsBefore, environmentsToSync, linkedWorkspaces, workspaces, links, probeVars, pureVars, restVars>>

(***************************************************************************)
(* PUT /api/environments/[id]                                              *)
(***************************************************************************)
PutEnvironmentRequest(c, e, v) ==
    Arrive([NoRequest EXCEPT !.op = "putEnvironment", !.caller = c, !.env = e,
                             !.variables = v])

\* const body = await request.json()
PutEnvironmentBody ==
    /\ rPc = "body" /\ req.op = "putEnvironment"
    /\ rPc' = "findEnvironment"
    /\ UNCHANGED <<req, rResp, rSync, rLinksBefore, rEnvsBefore, rWrites, environmentsToSync, linkedWorkspaces, storeVars, probeVars, pureVars, restVars>>

\* findFirst({ where: { id, userId }, include: { workspaces: { include: { workspace } } } }),
\* 404 if none; then the variables are parsed, 400 if they do not parse
PutEnvironmentFind ==
    /\ rPc = "findEnvironment" /\ req.op = "putEnvironment"
    /\ IF ~FindEnvironment(req.env, req.caller)
       THEN Respond(404, <<>>) /\ linkedWorkspaces' = linkedWorkspaces
       ELSE IF ~PutVariables(req.variables).ok
       THEN Respond(400, <<>>) /\ linkedWorkspaces' = linkedWorkspaces
       ELSE /\ rPc' = "update"
            /\ rResp' = rResp
            \* existingEnvironment.workspaces.map(we => we.workspace): the
            \* workspace rows as read here
            /\ linkedWorkspaces' = {[id |-> w, status |-> workspaces[w].status] :
                                        w \in WorkspacesLinkedTo(req.env)}
    /\ UNCHANGED <<req, rSync, rLinksBefore, rEnvsBefore, rWrites, environmentsToSync, storeVars, probeVars, pureVars, restVars>>

\* await prisma.environment.update({ where: { id }, data: {...} })
PutEnvironmentUpdate ==
    /\ rPc = "update" /\ req.op = "putEnvironment"
    /\ IF \E i \in 1..Len(environments) : environments[i].id = req.env
       THEN /\ environments' =
                [i \in 1..Len(environments) |->
                    IF environments[i].id = req.env /\ req.variables.t # "undefined"
                    THEN [environments[i] EXCEPT !.variables = PutVariables(req.variables).text]
                    ELSE environments[i]]
            /\ rWrites' = rWrites + 1
            /\ rPc' = "syncLoop"
            /\ rResp' = rResp
       ELSE \* the record to update is gone: update throws
            /\ Respond(500, <<>>)
            /\ UNCHANGED <<environments, rWrites>>
    /\ UNCHANGED <<req, rSync, rLinksBefore, rEnvsBefore, environmentsToSync, linkedWorkspaces,
                   workspaces, links, nextEnvId, probeVars, pureVars, restVars>>

\* As PutEnvironmentSync, with a throwing sync call ending the loop.
PutEnvironmentSync_StopsOnFailure ==
    /\ rPc = "syncLoop" /\ req.op = "putEnvironment"
    /\ linkedWorkspaces # {}
    /\ \E workspace \in linkedWorkspaces :
        IF workspace.status = "running"
        THEN \E ok \in BOOLEAN :
                /\ rSync' = Append(rSync, [ws |-> workspace.id, envs |-> <<req.env>>, ok |-> ok])
                /\ linkedWorkspaces' = IF ok THEN linkedWorkspaces \ {workspace} ELSE {}
        ELSE /\ rSync' = rSync
             /\ linkedWorkspaces' = linkedWorkspaces \ {workspace}
    /\ UNCHANGED <<req, rPc, rResp, rLinksBefore, rEnvsBefore, rWrites, environmentsToSync, storeVars, probeVars, pureVars, restVars>>

\* for (const workspace of linkedWorkspaces) if (workspace.status === 'running')
\*   try { await syncEnvironmentToWorkspaces(workspace.id, [updatedEnvironment]) } catch { log }
\* One turn of the loop; the rows of the relation come in no stated order.
PutEnvironmentSync ==
    /\ rPc = "syncLoop" /\ req.op = "putEnvironment"
    /\ linkedWorkspaces # {}
    /\ \E workspace \in linkedWorkspaces :
        /\ IF workspace.status = "running"
           THEN \E ok \in BOOLEAN :
                    rSync' = Append(rSync, [ws |-> workspace.id, envs |-> <<req.env>>, ok |-> ok])
           ELSE rSync' = rSync
        /\ linkedWorkspaces' = linkedWorkspaces \ {workspace}
    /\ UNCHANGED <<req, rPc, rResp, rLinksBefore, rEnvsBefore, rWrites, environmentsToSync, storeVars, probeVars, pureVars, restVars>>

\* return NextResponse.json(updatedEnvironment)
PutEnvironmentRespond ==
    /\ rPc = "syncLoop" /\ req.op = "putEnvironment"
    /\ linkedWorkspaces = {}
    /\ Respond(200, <<req.env>>)
    /\ UNCHANGED <<req, rSync, rLinksBefore, rEnvsBefore, rWrites, environmentsToSync, linkedWorkspaces, storeVars, probeVars, pureVars, restVars>>

(***************************************************************************)
(* DELETE /api/environments/[id]                                           *)
(***************************************************************************)
DeleteEnvironmentRequest(c, e) ==
    Arrive([NoRequest EXCEPT !.op = "deleteEnvironment", !.caller = c, !.env = e])

\* const params = await context.params
DeleteEnvironmentBody ==
    /\ rPc = "body" /\ req.op = "deleteEnvironment"
    /\ rPc' = "findEnvironment"
    /\ UNCHANGED <<req, rResp, rSync, rLinksBefore, rEnvsBefore, rWrites, environmentsToSync, linkedWorkspaces, storeVars, probeVars, pureVars, restVars>>

\* findFirst({ where: { id, userId } }), 404 if none
DeleteEnvironmentFind ==
    /\ rPc = "findEnvironment" /\ req.op = "deleteEnvironment"
    /\ IF ~FindEnvironment(req.env, req.caller)
       THEN Respond(404, <<>>)
       ELSE rPc' = "delete" /\ rResp' = rResp
    /\ UNCHANGED <<req, rSync, rLinksBefore, rEnvsBefore, rWrites, environmentsToSync, linkedWorkspaces, storeVars, probeVars, pureVars, restVars>>

\* await prisma.environment.delete({ where: { id } }); return { success: true }
DeleteEnvironmentDelete ==
    /\ rPc = "delete" /\ req.op = "deleteEnvironment"
    /\ DeleteEnvironment(req.env)
    /\ rWrites' = rWrites + 1
    /\ Respond(200, <<>>)
    /\ UNCHANGED <<req, rSync, rLinksBefore, rEnvsBefore, environmentsToSync, linkedWorkspaces, workspaces, nextEnvId, probeVars, pureVars, restVars>>

(***************************************************************************)
(* GET /api/environments/[id]                                              *)
(***************************************************************************)
GetEnvironmentRequest(c, e) ==
    Arrive([NoRequest EXCEPT !.op = "getEnvironment", !.caller = c, !.env = e])

\* const params = await context.params
GetEnvironmentParams ==
    /\ rPc = "body" /\ req.op = "getEnvironment"
    /\ rPc' = "findEnvironment"
    /\ UNCHANGED <<req, rResp, rSync, rLinksBefore, rEnvsBefore, rWrites, environmentsToSync, linkedWorkspaces, storeVars, probeVars, pureVars, restVars>>

\* findFirst({ where: { id, userId }, select: {...} }), 404 if none, else the
\* environment is returned
GetEnvironmentFind ==
    /\ rPc = "findEnvironment" /\ req.op = "getEnvironment"
    /\ IF ~FindEnvironment(req.env, req.caller)
       THEN Respond(404, <<>>)
       ELSE Respond(200, <<req.env>>)
    /\ UNCHANGED <<req, rSync, rLinksBefore, rEnvsBefore, rWrites, environmentsToSync, linkedWorkspaces, storeVars, probeVars, pureVars, restVars>>

(***************************************************************************)
(* GET /api/workspaces/[id]/environments                                   *)
(***************************************************************************)
GetLinksRequest(c, w) ==
    Arrive([NoRequest EXCEPT !.op = "getLinks", !.caller = c, !.ws = w])

\* const params = await context.params
GetLinksParams ==
    /\ rPc = "body" /\ req.op = "getLinks"
    /\ rPc' = "findWorkspace"
    /\ UNCHANGED <<req, rResp, rSync, rLinksBefore, rEnvsBefore, rWrites, environmentsToSync, linkedWorkspaces, storeVars, probeVars, pureVars, restVars>>

\* findFirst({ where: { id, userId }, include: { environments: { include:
\* { environment } } } }), 404 if none, else the linked environments are
\* returned
GetLinksFind ==
    /\ rPc = "findWorkspace" /\ req.op = "getLinks"
    /\ IF ~FindWorkspace(req.ws, req.caller)
       THEN Respond(404, <<>>)
       ELSE Respond(200, links[req.ws])
    /\ UNCHANGED <<req, rSync, rLinksBefore, rEnvsBefore, rWrites, environmentsToSync, linkedWorkspaces, storeVars, probeVars, pureVars, restVars>>

(***************************************************************************)
(* The dashboard's readers of a stored variables payload (env.variables).  *)
(***************************************************************************)
\* Object.keys(value) / Object.entries(value) throw a TypeError on null
ObjectEntriesThrows(value) == value.t = "null"

\* What a dashboard function gave: it raised, or it returned entries / a count
Raised == [threw |-> TRUE, entries |-> <<>>, count |-> 0]
Returned(entries) == [threw |-> FALSE, entries |-> entries, count |-> Len(entries)]

\* function parseVariables(variablesJson): try { Object.entries(JSON.parse(..)).map(..) }
\* catch { return [] }
ParseVariables(variablesJson) ==
    LET parsed == JsonParse(variablesJson)
    IN  IF parsed.t = "SyntaxError" \/ ObjectEntriesThrows(parsed)
        THEN Returned(<<>>)
        ELSE Returned(parsed.entries)

\* const getVariableCount = (env) => { try { return Object.keys(JSON.parse(env.variables)).length }
\* catch { return 0 } }
GetVariableCount(variables) ==
    LET parsed == JsonParse(variables)
    IN  IF parsed.t = "SyntaxError" \/ ObjectEntriesThrows(parsed)
        THEN Returned(<<>>)
        ELSE Returned(parsed.entries)

\* {Object.keys(JSON.parse(env.variables || '{}')).length} variables, in the
\* JSX of the environment list: nothing catches what it throws
ListVariableCount(variables) ==
    LET parsed == JsonParse(IF variables = "" THEN "{}" ELSE variables)
    IN  IF parsed.t = "SyntaxError" \/ ObjectEntriesThrows(parsed)
        THEN Raised
        ELSE Returned(parsed.entries)

\* Stored payloads the dashboard may be given: JSON texts, and texts that are
\* no JSON ("", a word, an object cut short)
Payloads == {"{}", "{\"A\":\"1\"}", "{\"A\":1}", "null", "[]", "[\"a\"]", "1",
             "", "not json", "{\"A\":"}

\* Sequences over S of length at most n
RECURSIVE SeqsUpTo(_, _)
SeqsUpTo(S, n) ==
    IF n = 0 THEN {<<>>}
    ELSE LET shorter == SeqsUpTo(S, n - 1)
         IN  shorter \cup {Append(q, x) : q \in {r \in shorter : Len(r) = n - 1}, x \in S}

NothingRendered == [by |-> "none", env |-> 0, threw |-> FALSE, results |-> <<>>]

\* handleSelectEnvironment(env): setVariableEntries(parseVariables(env.variables))
SelectEnvironment(i) ==
    /\ i \in 1..Len(initialEnvironments)
    /\ LET r == ParseVariables(initialEnvironments[i])
       IN rendered' = [by |-> "parseVariables", env |-> i, threw |-> r.threw, results |-> <<r>>]
    /\ UNCHANGED <<initialEnvironments, orderedEnvironments, merged, storeVars, reqVars, probeVars, restVars>>

\* ({getVariableCount(env)} vars), in the workspace dialogs
ShowVariableCount(i) ==
    /\ i \in 1..Len(initialEnvironments)
    /\ LET r == GetVariableCount(initialEnvironments[i])
       IN rendered' = [by |-> "getVariableCount", env |-> i, threw |-> r.threw, results |-> <<r>>]
    /\ UNCHANGED <<initialEnvironments, orderedEnvironments, merged, storeVars, reqVars, probeVars, restVars>>

\* filteredEnvironments.map(env => <Card> ... variables </Card>): the list is
\* rendered as a whole, an exception in one card is an exception of the render
RenderEnvironmentList ==
    /\ LET rs == [i \in 1..Len(initialEnvironments) |-> ListVariableCount(initialEnvironments[i])]
       IN rendered' = [by |-> "list", env |-> 0,
                       threw |-> (\E i \in 1..Len(rs) : rs[i].threw), results |-> rs]
    /\ UNCHANGED <<initialEnvironments, orderedEnvironments, merged, storeVars, reqVars, probeVars, restVars>>

DashboardNext ==
    \/ \E i \in 1..MaxShown : SelectEnvironment(i)
    \/ \E i \in 1..MaxShown : ShowVariableCount(i)
    \/ RenderEnvironmentList

(***************************************************************************)
(* The environment merge engine: merge(orderedEnvironments).               *)
(***************************************************************************)
VariableNames == {"X", "Y"}
VariableValues == {"1", "2"}

\* Map<string,string>: the variable maps an environment can have
VariableMaps == UNION {[D -> VariableValues] : D \in SUBSET VariableNames}

EmptyMap == [k \in {} |-> ""]

\* As Overwrite, with the keys already present kept (first writer wins).
Overwrite_KeepFirst(acc, variables) ==
    [k \in DOMAIN acc \cup DOMAIN variables |->
        IF k \in DOMAIN acc THEN acc[k] ELSE variables[k]]

\* "overwrite each key present in its variable map"
Overwrite(acc, variables) ==
    [k \in DOMAIN acc \cup DOMAIN variables |->
        IF k \in DOMAIN variables THEN variables[k] ELSE acc[k]]

\* "start from an empty mapping; for each environment in the given order ..."
RECURSIVE MergeInto(_, _)
MergeInto(acc, envs) ==
    IF envs = <<>> THEN acc ELSE MergeInto(Overwrite(acc, Head(envs)), Tail(envs))

Merge(envs) == MergeInto(EmptyMap, envs)

NotMerged == [applied |-> FALSE, result |-> EmptyMap, order |-> <<>>, reordered |-> EmptyMap]

\* The list in another order: position i holds the environment of position p[i]
Reordered(envs, p) == [i \in 1..Len(envs) |-> envs[p[i]]]

\* merge is applied to the list, and to the list in some other order
ApplyMerge ==
    /\ ~merged.applied
    /\ \E p \in Permutations(1..Len(orderedEnvironments)) :
        merged' = [applied |-> TRUE,
                   result |-> Merge(orderedEnvironments),
                   order |-> p,
                   reordered |-> Merge(Reordered(orderedEnvironments, p))]
    /\ UNCHANGED <<orderedEnvironments, initialEnvironments, rendered, storeVars, reqVars, probeVars, restVars>>

MergeNext == ApplyMerge

(***************************************************************************)
(* Specifications.                                                         *)
(***************************************************************************)
\* The requests of signed-in users, and those of a caller with no session,
\* whose body no handler reads
Requests ==
    \/ \E c \in Users, w \in WorkspaceIds \cup {UnknownWorkspace}, ids \in BodyIdLists :
            PutLinksRequest(c, w, TRUE, ids)
    \/ \E c \in Users, w \in WorkspaceIds : PutLinksRequest(c, w, FALSE, <<>>)
    \/ \E w \in WorkspaceIds \cup {UnknownWorkspace} : PutLinksRequest(NoUser, w, TRUE, <<>>)
    \/ \E c \in Users, name \in BodyNames, v \in BodyVariables :
            PostEnvironmentRequest(c, name, v)
    \/ PostEnvironmentRequest(NoUser, "dev", Undefined)
    \/ \E c \in Users, e \in EnvIdPool, v \in BodyVariables : PutEnvironmentRequest(c, e, v)
    \/ \E e \in EnvIdPool : PutEnvironmentRequest(NoUser, e, Undefined)
    \/ \E c \in Callers, e \in EnvIdPool : DeleteEnvironmentRequest(c, e)

\* body.variables of every kind: omitted, null, strings (empty, JSON of an
\* object, of null, of an array, no JSON), objects (string values, a number
\* value), an array, a number
VariablesOfEveryKind ==
    { Undefined,
      [t |-> "null",   text |-> "null"],
      [t |-> "string", text |-> ""],
      [t |-> "string", text |-> "{\"A\":\"1\"}"],
      [t |-> "string", text |-> "null"],
      [t |-> "string", text |-> "[]"],
      [t |-> "string", text |-> "not json"],
      [t |-> "object", text |-> "{\"A\":\"1\"}"],
      [t |-> "object", text |-> "{\"A\":1}"],
      [t |-> "array",  text |-> "[]"],
      [t |-> "number", text |-> "1"] }

\* The requests of one user with variables of every kind, among those of
\* another user and of a caller with no session
RequestsWithVariables ==
    \/ \E name \in BodyNames, v \in VariablesOfEveryKind : PostEnvironmentRequest("u1", name, v)
    \/ PostEnvironmentRequest("u2", "dev", Undefined)
    \/ \E e \in EnvIdPool, v \in VariablesOfEveryKind : PutEnvironmentRequest("u1", e, v)
    \/ \E ids \in BodyIdLists : PutLinksRequest("u1", "w1", TRUE, ids)
    \/ PutLinksRequest("u1", "w1", FALSE, <<>>)
    \/ \E e \in EnvIdPool : DeleteEnvironmentRequest("u1", e)
    \/ PutLinksRequest(NoUser, "w1", TRUE, <<>>)

Handlers ==
    \/ Return
    \/ Auth
    \/ StoreThrows
    \/ PutLinksBody
    \/ PutLinksFindWorkspace
    \/ PutLinksVerify
    \/ PutLinksDeleteMany
    \/ PutLinksCreateMany
    \/ PutLinksFindToSync
    \/ PutLinksSync
    \/ PostEnvironmentBody
    \/ PostEnvironmentCreate
    \/ PutEnvironmentBody
    \/ PutEnvironmentFind
    \/ PutEnvironmentUpdate
    \/ PutEnvironmentSync
    \/ PutEnvironmentRespond
    \/ DeleteEnvironmentBody
    \/ DeleteEnvironmentFind
    \/ DeleteEnvironmentDelete

Next == Requests \/ Handlers

\* Nothing is shown by the dashboard, nothing is merged
PureInit ==
    /\ initialEnvironments = <<>>
    /\ rendered = NothingRendered
    /\ orderedEnvironments = <<>>
    /\ merged = NotMerged

\* The two containers of a workspace, by role
Roles == {"opencode", "vscode"}

\* The record of a lifecycle operation as it begins: the operation, where it
\* stands, the index of its next engine call, the status and the containers
\* it found, the roles it started, whether it attempted cleanup, whether an
\* engine call of it failed, the number of its engine calls, the answers its
\* planned calls got, the statuses it persisted, and its result
Fresh(op) ==
    [op |-> op, pc |-> "idle", step |-> 0, prior |-> wsStatus, before |-> containers,
     started |-> {}, cleaned |-> FALSE, failed |-> FALSE, calls |-> 0,
     answers |-> <<>>, persisted |-> <<>>, result |-> "none"]

\* No lifecycle operation has been asked for
NoOperation ==
    [op |-> "none", pc |-> "idle", step |-> 0, prior |-> "creating",
     before |-> [r \in Roles |-> "absent"],
     started |-> {}, cleaned |-> FALSE, failed |-> FALSE, calls |-> 0,
     answers |-> <<>>, persisted |-> <<>>, result |-> "none"]

\* The lifecycle manager has not been asked anything: the workspace record
\* was just inserted with status creating and has no container
LifeIdle ==
    /\ wsStatus = "creating"
    /\ containers = [r \in Roles |-> "absent"]
    /\ life = NoOperation
    /\ stopCalls = 0

\* No second configuration update is being served
ConcIdle ==
    /\ req2 = NoRequest
    /\ rPc2 = "idle"
    /\ rResp2 = Response(0, <<>>)

\* No host was built
RouteIdle ==
    /\ routeIds = <<>>
    /\ routeHosts = <<>>

RestInit == LifeIdle /\ ConcIdle /\ RouteIdle

Init == StoreInit /\ ReqInit /\ ProbeInit /\ PureInit /\ RestInit

\* The dashboard is given some environments
DashboardInit ==
    /\ StoreInit /\ ReqInit /\ ProbeInit /\ RestInit
    /\ initialEnvironments \in SeqsUpTo(Payloads, MaxShown)
    /\ rendered = NothingRendered
    /\ orderedEnvironments = <<>>
    /\ merged = NotMerged

\* merge is given some ordered list of environments
MergeInit ==
    /\ StoreInit /\ ReqInit /\ ProbeInit /\ RestInit
    /\ initialEnvironments = <<>>
    /\ rendered = NothingRendered
    /\ orderedEnvironments \in SeqsUpTo(VariableMaps, MaxMerge)
    /\ merged = NotMerged

\* One user owns every workspace: two running ones and a stopped one
OneOwnerWorkspaces ==
    [w \in WorkspaceIds |->
        [userId |-> "u1", status |-> IF w = "w2" THEN "stopped" ELSE "running"]]

OneOwnerInit ==
    /\ workspaces = OneOwnerWorkspaces
    /\ environments = <<>>
    /\ links = [w \in WorkspaceIds |-> <<>>]
    /\ nextEnvId = 0
    /\ ReqInit /\ ProbeInit /\ PureInit /\ RestInit

(***************************************************************************)
(* PUT /api/workspaces/[id]/environments, a second request being served    *)
(* while the first is: the same handler, on locals of its own. Each await  *)
(* is a point where the other request's steps may come in between.         *)
(***************************************************************************)
PutLinks2Request(c, w, isArray, ids) ==
    /\ rPc2 = "idle"
    /\ req2' = [NoRequest EXCEPT !.op = "putLinks", !.caller = c, !.ws = w,
                                 !.isArray = isArray, !.ids = ids]
    /\ rPc2' = "auth"
    /\ rResp2' = Response(0, <<>>)
    /\ UNCHANGED <<storeVars, reqVars, probeVars, pureVars, lifeVars, routeVars>>

\* The response has been sent
PutLinks2Return ==
    /\ rPc2 = "done"
    /\ req2' = NoRequest
    /\ rPc2' = "idle"
    /\ rResp2' = Response(0, <<>>)
    /\ UNCHANGED <<storeVars, reqVars, probeVars, pureVars, lifeVars, routeVars>>

\* return NextResponse.json(..., { status })
Respond2(status, envs) ==
    /\ rPc2' = "done"
    /\ rResp2' = Response(status, envs)

\* const session = await auth(); if (!session?.user?.id) return 401
PutLinks2Auth ==
    /\ rPc2 = "auth"
    /\ IF req2.caller = NoUser
       THEN Respond2(401, <<>>)
       ELSE rPc2' = "body" /\ rResp2' = rResp2
    /\ UNCHANGED <<req2, storeVars, reqVars, probeVars, pureVars, lifeVars, routeVars>>

\* A pending prisma call throws: the outer catch answers 500
PutLinks2StoreThrows ==
    /\ rPc2 \in {"findWorkspace", "verify", "deleteMany", "createMany", "findToSync"}
    /\ Respond2(500, <<>>)
    /\ UNCHANGED <<req2, storeVars, reqVars, probeVars, pureVars, lifeVars, routeVars>>

\* if (!Array.isArray(environmentIds)) return 400
PutLinks2Body ==
    /\ rPc2 = "body"
    /\ IF ~req2.isArray
       THEN Respond2(400, <<>>)
       ELSE rPc2' = "findWorkspace" /\ rResp2' = rResp2
    /\ UNCHANGED <<req2, storeVars, reqVars, probeVars, pureVars, lifeVars, routeVars>>

\* const workspace = await prisma.workspace.findFirst(...); if (!workspace) return 404
PutLinks2FindWorkspace ==
    /\ rPc2 = "findWorkspace"
    /\ IF ~FindWorkspace(req2.ws, req2.caller)
       THEN Respond2(404, <<>>)
       ELSE /\ rPc2' = IF Len(req2.ids) > 0 THEN "verify" ELSE "deleteMany"
            /\ rResp2' = rResp2
    /\ UNCHANGED <<req2, storeVars, reqVars, probeVars, pureVars, lifeVars, routeVars>>

\* Verify all environments belong to the user, else 403
PutLinks2Verify ==
    /\ rPc2 = "verify"
    /\ IF ~VerifyOwnership(req2.ids, req2.caller)
       THEN Respond2(403, <<>>)
       ELSE rPc2' = "deleteMany" /\ rResp2' = rResp2
    /\ UNCHANGED <<req2, storeVars, reqVars, probeVars, pureVars, lifeVars, routeVars>>

\* await prisma.workspaceEnvironment.deleteMany(...)
PutLinks2DeleteMany ==
    /\ rPc2 = "deleteMany"
    /\ links' = DeleteManyLinks(links, req2.ws)
    /\ rPc2' = IF Len(req2.ids) > 0 THEN "createMany" ELSE "findToSync"
    /\ rResp2' = rResp2
    /\ UNCHANGED <<req2, workspaces, environments, nextEnvId, reqVars, probeVars, pureVars, lifeVars, routeVars>>

\* if (environmentIds.length > 0) await prisma.workspaceEnvironment.createMany(...)
PutLinks2CreateMany ==
    /\ rPc2 = "createMany"
    /\ IF ForeignKeysHold(req2.ids)
       THEN /\ links' = CreateManyLinks(links, req2.ws, req2.ids)
            /\ rPc2' = "findToSync"
            /\ rResp2' = rResp2
       ELSE /\ Respond2(500, <<>>)
            /\ links' = links
    /\ UNCHANGED <<req2, workspaces, environments, nextEnvId, reqVars, probeVars, pureVars, lifeVars, routeVars>>

\* const environmentsToSync = await prisma.environment.findMany(...); the
\* rows found are kept in the response to be
PutLinks2FindToSync ==
    /\ rPc2 = "findToSync"
    /\ rResp2' = Response(0, Ids(FindManyEnvironments(req2.ids, req2.caller)))
    /\ rPc2' = "sync"
    /\ UNCHANGED <<req2, storeVars, reqVars, probeVars, pureVars, lifeVars, routeVars>>

\* try { await syncEnvironmentToWorkspaces(...) } catch { log }; return
\* NextResponse.json({ environments }): 200 whether the sync resolved or threw
PutLinks2Sync ==
    /\ rPc2 = "sync"
    /\ Respond2(200, rResp2.envs)
    /\ UNCHANGED <<req2, storeVars, reqVars, probeVars, pureVars, lifeVars, routeVars>>

\* Two environments of one user, as two POSTs left them
TwoEnvironments ==
    [i \in {1, 2} |-> [id |-> i, userId |-> "u1", variables |-> PostVariables(Undefined).text]]

ConcInit ==
    /\ workspaces = InitWorkspaces
    /\ environments = TwoEnvironments
    /\ links = [w \in WorkspaceIds |-> <<>>]
    /\ nextEnvId = Len(TwoEnvironments)
    /\ ReqInit /\ ProbeInit /\ PureInit /\ RestInit

\* The lists a configuration update may carry: the user's environments, each
\* at most once
OwnIdLists == InjectiveSeqs(Range(Ids(TwoEnvironments)))

\* The owner of a workspace sends configuration updates for it, two at a time
ConcRequests ==
    \/ \E ids \in OwnIdLists : PutLinksRequest("u1", "w1", TRUE, ids)
    \/ \E ids \in OwnIdLists : PutLinks2Request("u1", "w1", TRUE, ids)

ConcNext ==
    \/ ConcRequests
    \/ Return
    \/ Auth
    \/ StoreThrows
    \/ PutLinksBody
    \/ PutLinksFindWorkspace
    \/ PutLinksVerify
    \/ PutLinksDeleteMany
    \/ PutLinksCreateMany
    \/ PutLinksFindToSync
    \/ PutLinksSync
    \/ PutLinks2Return
    \/ PutLinks2Auth
    \/ PutLinks2StoreThrows
    \/ PutLinks2Body
    \/ PutLinks2FindWorkspace
    \/ PutLinks2Verify
    \/ PutLinks2DeleteMany
    \/ PutLinks2CreateMany
    \/ PutLinks2FindToSync
    \/ PutLinks2Sync

\* Two configuration updates of one workspace served at the same time
ConcSpec == ConcInit /\ [][ConcNext]_vars

(***************************************************************************)
(* Routing: the names a workspace's containers and hosts are given.        *)
(* Texts are sequences of characters.                                      *)
(***************************************************************************)
\* The characters workspace ids are made of here: letters and the hyphen
IdChars == {"a", "b", "-"}

\* The non-empty texts of at most n characters of S
TextsUpTo(S, n) ==
    UNION {[1..k -> S] : k \in 1..n}

ValidIds == TextsUpTo(IdChars, MaxIdLen)

\* The role's name as text: 'opencode', 'vscode'
RoleName(role) ==
    IF role = "opencode"
    THEN <<"o", "p", "e", "n", "c", "o", "d", "e">>
    ELSE <<"v", "s", "c", "o", "d", "e">>

\* The configured base domain (DOMAIN)
BaseDomain == <<"d", ".", "i", "o">>

\* As ContainerName, with only the first character of the id.
ContainerName_IdHead(role, id) ==
    RoleName(role) \o <<"-">> \o <<Head(id)>>

\* `opencode-${workspaceId}`
ContainerName(role, id) ==
    RoleName(role) \o <<"-">> \o id

\* Host == "<role>-<id>.<baseDomain>"
Host(role, id, domain) ==
    ContainerName(role, id) \o <<".">> \o domain

\* Hosts are to be built for two workspace ids
RouteInit ==
    /\ StoreInit /\ ReqInit /\ ProbeInit /\ PureInit /\ LifeIdle /\ ConcIdle
    /\ routeIds \in [1..2 -> ValidIds]
    /\ routeHosts = <<>>

\* The host of one role of one of the two workspaces is built
BuildHost ==
    \E i \in DOMAIN routeIds, role \in Roles :
        /\ \A k \in 1..Len(routeHosts) : ~(routeHosts[k].of = i /\ routeHosts[k].role = role)
        /\ routeHosts' = Append(routeHosts,
                                [of |-> i, id |-> routeIds[i], role |-> role,
                                 host |-> Host(role, routeIds[i], BaseDomain)])
        /\ UNCHANGED <<routeIds, storeVars, reqVars, probeVars, pureVars, lifeVars, concVars>>

RouteNext == BuildHost

\* The routing hosts of pairs of workspace ids
RouteSpec == RouteInit /\ [][RouteNext]_vars

(***************************************************************************)
(* The workspace lifecycle manager, for one workspace and its container    *)
(* pair. Operations on one workspace are sequenced; each engine call of an *)
(* operation is a step, and may fail.                                      *)
(***************************************************************************)
LifeOps == {"create", "start", "stop", "delete"}

\* As Accepts, with start accepted whatever the status.
Accepts_StartAnywhere(op, status) ==
    CASE op = "create" -> status = "creating"
      [] op = "start"  -> TRUE
      [] op = "stop"   -> status \in {"running", "stopped"}
      [] OTHER         -> status \in {"running", "stopped", "error"}

\* The statuses in which an operation is accepted: create on the record just
\* inserted, start and stop on a running or stopped workspace, delete on a
\* running, stopped or failed one
Accepts(op, status) ==
    CASE op = "create" -> status = "creating"
      [] op = "start"  -> status \in {"running", "stopped"}
      [] op = "stop"   -> status \in {"running", "stopped"}
      [] OTHER         -> status \in {"running", "stopped", "error"}

\* As IsNoOp, with no operation ever a no-op.
IsNoOp_Never(op, status) == FALSE

\* Stopping a stopped workspace and starting a running one are no-ops
IsNoOp(op, status) ==
    \/ op = "stop" /\ status = "stopped"
    \/ op = "start" /\ status = "running"

\* The engine calls of an operation, in order: the agent container is
\* container 1, the editor container is container 2
Plan(op) ==
    CASE op = "create" -> <<[call |-> "create", role |-> "opencode"],
                            [call |-> "create", role |-> "vscode"],
                            [call |-> "start", role |-> "opencode"],
                            [call |-> "start", role |-> "vscode"]>>
      [] op = "start"  -> <<[call |-> "start", role |-> "opencode"],
                            [call |-> "start", role |-> "vscode"]>>
      [] op = "stop"   -> <<[call |-> "stop", role |-> "opencode"],
                            [call |-> "stop", role |-> "vscode"]>>
      [] OTHER         -> <<[call |-> "remove", role |-> "opencode"],
                            [call |-> "remove", role |-> "vscode"]>>

\* What an engine call can answer on a container in this state, and the
\* state it leaves: any call can fail with a transient error; a call on an
\* absent container other than create answers 'not found'
Outcomes(call, state) ==
    {[kind |-> "transient", state |-> state]} \cup
    (CASE call = "create" ->
            IF state = "absent" THEN {[kind |-> "ok", state |-> "created"]}
            ELSE {[kind |-> "conflict", state |-> state]}
       [] call = "start" ->
            IF state = "absent" THEN {[kind |-> "notFound", state |-> state]}
            ELSE {[kind |-> "ok", state |-> "running"]}
       [] call = "stop" ->
            IF state = "absent" THEN {[kind |-> "notFound", state |-> state]}
            ELSE {[kind |-> "ok", state |-> IF state = "running" THEN "stopped" ELSE state]}
       [] OTHER ->
            IF state = "absent" THEN {[kind |-> "notFound", state |-> state]}
            ELSE {[kind |-> "ok", state |-> "absent"]})

\* As Tolerated, with 'not found' an error for every operation.
Tolerated_OnlyOk(op) == {"ok"}

\* The answers an operation goes on after: 'not found' counts as success
\* where the desired end state already holds (remove, stop)
Tolerated(op) ==
    IF op \in {"delete", "stop"} THEN {"ok", "notFound"} ELSE {"ok"}

\* As AfterCall, with the answer of the operation's last call not looked at.
AfterCall_LastUnchecked(op, step, tolerated) ==
    IF step = Len(Plan(op)) THEN "persist"
    ELSE IF ~tolerated THEN (IF op = "create" THEN "cleanup" ELSE "persistFailure")
    ELSE "call"

\* Where an operation goes after an engine call: on, to the persisting of
\* its target status after the last call, or to its failure path
AfterCall(op, step, tolerated) ==
    IF ~tolerated THEN (IF op = "create" THEN "cleanup" ELSE "persistFailure")
    ELSE IF step = Len(Plan(op)) THEN "persist"
    ELSE "call"

\* The status an operation persists when it succeeds
Target(op) ==
    CASE op = "create" -> "running"
      [] op = "start"  -> "running"
      [] op = "stop"   -> "stopped"
      [] OTHER         -> "deleted"

\* The status an operation persists when it fails: error for create and
\* start, the prior status for stop and delete
FailureStatus(op, prior) ==
    IF op \in {"create", "start"} THEN "error" ELSE prior

\* An operation is asked for, no other being in progress: it is refused in
\* a status that does not accept it, ends at once when it is a no-op, and
\* otherwise goes to its first engine call
Begin ==
    \E op \in LifeOps :
        /\ life.pc \in {"idle", "done"}
        /\ IF ~Accepts(op, wsStatus)
           THEN /\ life' = [Fresh(op) EXCEPT !.pc = "done", !.result = "rejected"]
                /\ stopCalls' = 0
           ELSE IF IsNoOp(op, wsStatus)
           THEN /\ op = "stop" => stopCalls < MaxStops
                /\ life' = [Fresh(op) EXCEPT !.pc = "done", !.result = "ok"]
                /\ stopCalls' = IF op = "stop" THEN stopCalls + 1 ELSE 0
           ELSE /\ life' = [Fresh(op) EXCEPT !.pc = "call", !.step = 1]
                /\ stopCalls' = 0
        /\ UNCHANGED <<wsStatus, containers>>
        /\ UNCHANGED <<storeVars, reqVars, probeVars, pureVars, concVars, routeVars>>

\* The operation's next engine call is made and answered
EngineCall ==
    /\ life.pc = "call"
    /\ LET c == Plan(life.op)[life.step]
       IN \E out \in Outcomes(c.call, containers[c.role]) :
            /\ containers' = [containers EXCEPT ![c.role] = out.state]
            /\ life' = [life EXCEPT
                    !.calls = @ + 1,
                    !.answers = Append(@, out.kind),
                    !.failed = out.kind \notin Tolerated(life.op),
                    !.started = IF c.call = "start" /\ out.kind = "ok"
                                THEN @ \cup {c.role} ELSE @,
                    !.step = @ + 1,
                    !.pc = AfterCall(life.op, life.step, out.kind \in Tolerated(life.op))]
    /\ UNCHANGED <<wsStatus, stopCalls>>
    /\ UNCHANGED <<storeVars, reqVars, probeVars, pureVars, concVars, routeVars>>

\* A failed create attempts to remove the containers it left, best effort:
\* each removal may succeed or not
Cleanup ==
    /\ life.pc = "cleanup"
    /\ \E removed \in SUBSET {r \in Roles : containers[r] # "absent"} :
        /\ containers' = [r \in Roles |-> IF r \in removed THEN "absent" ELSE containers[r]]
        /\ life' = [life EXCEPT
                !.cleaned = TRUE,
                !.calls = @ + Cardinality({r \in Roles : containers[r] # "absent"}),
                !.pc = "persistFailure"]
    /\ UNCHANGED <<wsStatus, stopCalls>>
    /\ UNCHANGED <<storeVars, reqVars, probeVars, pureVars, concVars, routeVars>>

\* The operation succeeded: its target status is persisted
Persist ==
    /\ life.pc = "persist"
    /\ wsStatus' = Target(life.op)
    /\ life' = [life EXCEPT !.pc = "done", !.result = "ok",
                            !.persisted = Append(@, Target(life.op))]
    /\ UNCHANGED <<containers, stopCalls>>
    /\ UNCHANGED <<storeVars, reqVars, probeVars, pureVars, concVars, routeVars>>

\* The operation failed: error is persisted for create and start, the
\* status is left as it was for stop and delete
PersistFailure ==
    /\ life.pc = "persistFailure"
    /\ wsStatus' = FailureStatus(life.op, life.prior)
    /\ life' = [life EXCEPT !.pc = "done", !.result = "failed",
                            !.persisted = IF FailureStatus(life.op, life.prior) # wsStatus
                                          THEN Append(@, FailureStatus(life.op, life.prior))
                                          ELSE @]
    /\ UNCHANGED <<containers, stopCalls>>
    /\ UNCHANGED <<storeVars, reqVars, probeVars, pureVars, concVars, routeVars>>

\* A container is removed from the engine by someone else
RemovedOutOfBand ==
    \E r \in Roles :
        /\ containers[r] # "absent"
        /\ containers' = [containers EXCEPT ![r] = "absent"]
        /\ UNCHANGED <<wsStatus, life, stopCalls>>
        /\ UNCHANGED <<storeVars, reqVars, probeVars, pureVars, concVars, routeVars>>

LifeNext ==
    \/ Begin
    \/ EngineCall
    \/ Cleanup
    \/ Persist
    \/ PersistFailure
    \/ RemovedOutOfBand

\* The lifecycle of one workspace, from the record just inserted
LifeSpec == Init /\ [][LifeNext]_vars

GetHandlers ==
    \/ GetEnvironmentParams
    \/ GetEnvironmentFind
    \/ GetLinksParams
    \/ GetLinksFind

\* Requests of every caller to every route that addresses an environment or a
\* workspace: the workspace of one user, that of the other, and one that does
\* not exist. The store routes and the probe share only the workspace rows,
\* which neither writes: the probe is asked on the store as it starts, the
\* store routes while no probe was asked.
AccessRequests ==
    \/ /\ pPc = "idle"
       /\ \/ \E c \in Users : PostEnvironmentRequest(c, "dev", Undefined)
          \/ \E c \in Callers, e \in EnvIdPool : GetEnvironmentRequest(c, e)
          \/ \E c \in Callers, e \in EnvIdPool : PutEnvironmentRequest(c, e, Undefined)
          \/ \E c \in Callers, e \in EnvIdPool : DeleteEnvironmentRequest(c, e)
          \/ \E c \in Callers, w \in {"w1", "w3", UnknownWorkspace} : GetLinksRequest(c, w)
          \/ \E c \in Callers, w \in {"w1", "w3", UnknownWorkspace}, e \in EnvIdPool :
                PutLinksRequest(c, w, TRUE, <<e>>)
          \/ \E c \in Callers, w \in {"w1", "w3"} : PutLinksRequest(c, w, FALSE, <<>>)
    \/ /\ rPc = "idle" /\ nextEnvId = 0
       /\ \E c \in Callers, w \in {"w1", UnknownWorkspace} : ProbeRequest(c, w)

AccessNext == AccessRequests \/ Handlers \/ GetHandlers \/ ProbeStep

\* The store routes, serving one request after another
Spec == Init /\ [][Next]_vars

\* Every route that addresses an environment or a workspace, asked by every
\* caller
AccessSpec == Init /\ [][AccessNext]_vars

\* The requests of the one owner: environments created, linked one at a
\* time to any of the workspaces, updated and deleted
OneOwnerRequests ==
    \/ PostEnvironmentRequest("u1", "dev", Undefined)
    \/ \E w \in WorkspaceIds, e \in EnvIdPool : PutLinksRequest("u1", w, TRUE, <<e>>)
    \/ \E w \in WorkspaceIds : PutLinksRequest("u1", w, TRUE, <<>>)
    \/ \E e \in EnvIdPool : PutEnvironmentRequest("u1", e, Undefined)
    \/ \E e \in EnvIdPool : DeleteEnvironmentRequest("u1", e)

SyncNext == OneOwnerRequests \/ Handlers

\* The store routes, with every workspace owned by one user
SyncSpec == OneOwnerInit /\ [][SyncNext]_vars

\* The store routes, with request bodies carrying variables of every kind
VarNext == RequestsWithVariables \/ Handlers

VarSpec == Init /\ [][VarNext]_vars

\* The session probe, serving one request after another
ProbeSpec == Init /\ [][ProbeNext]_vars

\* The dashboard's readers, applied to the environments it was given
DashboardSpec == DashboardInit /\ [][DashboardNext]_vars

\* merge, applied to ordered lists of environments
MergeSpec == MergeInit /\ [][MergeNext]_vars

(***************************************************************************)
(* Properties of the workspace configuration update.                       *)
(***************************************************************************)
\* The environment with this id is in the store and belongs to this user
OwnedBy(e, u) ==
    \E i \in 1..Len(environments) : environments[i].id = e /\ environments[i].userId = u

\* The request served is a configuration update of an existing workspace
\* whose list names an id that is not an environment of the workspace's owner
NamesForeignId ==
    /\ req.op = "putLinks" /\ req.isArray
    /\ req.ws \in WorkspaceIds
    /\ \E i \in 1..Len(req.ids) : ~OwnedBy(req.ids[i], workspaces[req.ws].userId)

\* C7: the environments passed to the sync step of an accepted configuration
\* update are in exactly the order of the request's list.
C7_SyncInRequestOrder ==
    (req.op = "putLinks" /\ rPc = "done" /\ rResp.status = 200) =>
        \A i \in 1..Len(rSync) : rSync[i].envs = req.ids

\* C8: a configuration update naming an id that does not exist or is not
\* owned by the workspace's owner gets an error, leaves every link as it was
\* and makes no store write and no sync call.
C8_ForeignIdRejectedWhole ==
    (NamesForeignId /\ rPc \notin {"idle", "auth"}) =>
        /\ links = rLinksBefore
        /\ rWrites = 0
        /\ rSync = <<>>
        /\ rPc = "done" => rResp.status >= 400

\* C8 witness: the owner of a workspace that has links named one of his own
\* environments and one that is not his, and was answered 403.
C8_Witness ==
    /\ NamesForeignId /\ rPc = "done" /\ rResp.status = 403
    /\ req.caller = workspaces[req.ws].userId
    /\ links[req.ws] # <<>>
    /\ \E i \in 1..Len(req.ids) : OwnedBy(req.ids[i], req.caller)

\* C9: after a configuration update with list L succeeded, the environments
\* linked to the workspace are exactly those in L, and the links of the other
\* workspaces are as before.
C9_LinksReplacedWholesale ==
    (req.op = "putLinks" /\ rPc = "done" /\ rResp.status = 200) =>
        /\ Range(links[req.ws]) = Range(req.ids)
        /\ \A w \in WorkspaceIds \ {req.ws} : links[w] = rLinksBefore[w]

\* C9 witness: a successful update took a link away and added another, while
\* another workspace has links.
C9_Witness ==
    /\ req.op = "putLinks" /\ rPc = "done" /\ rResp.status = 200
    /\ Range(rLinksBefore[req.ws]) \ Range(req.ids) # {}
    /\ Range(req.ids) \ Range(rLinksBefore[req.ws]) # {}
    /\ \E w \in WorkspaceIds \ {req.ws} : links[w] # <<>>

\* C10: every link connects a workspace and an environment of the same owner.
C10_LinksWithinOwner ==
    \A w \in WorkspaceIds : \A i \in 1..Len(links[w]) :
        OwnedBy(links[w][i], workspaces[w].userId)

\* C10 witness: workspaces of two owners have links, and a request naming
\* another user's environment has just been refused.
C10_Witness ==
    /\ \E w1, w2 \in WorkspaceIds :
        /\ workspaces[w1].userId # workspaces[w2].userId
        /\ links[w1] # <<>> /\ links[w2] # <<>>
    /\ NamesForeignId /\ rPc = "done" /\ rResp.status = 403

(***************************************************************************)
(* Properties of the sync step.                                            *)
(***************************************************************************)
\* A sync call of the request served threw
SyncThrew == \E i \in 1..Len(rSync) : ~rSync[i].ok

\* The stored variables payload of the environment with this id
StoredVariables(e) ==
    (CHOOSE row \in Range(environments) : row.id = e).variables

\* C11: when the sync step throws, the configuration update or environment
\* update that triggered it still answers with success, and what it persisted
\* (the new links, the new variables) is in the store.
C11_SyncFailureNotFatal ==
    (rPc = "done" /\ SyncThrew) =>
        /\ rResp.status = 200
        /\ req.op = "putLinks" => links[req.ws] = req.ids
        /\ req.op = "putEnvironment" =>
            /\ \E row \in Range(environments) : row.id = req.env
            /\ req.variables.t \in {"string", "object", "array"} =>
                StoredVariables(req.env) = req.variables.text

\* C11 witness: an environment update that gave new variables to an
\* environment of a running workspace was answered after its sync threw.
C11_Witness ==
    /\ rPc = "done" /\ SyncThrew
    /\ req.op = "putEnvironment"
    /\ req.variables.t = "string"
    /\ rResp.status = 200
    /\ \E row \in Range(environments) : row.id = req.env /\ row.variables = "{\"A\":\"1\"}"

\* C12: the response to a configuration update whose sync failed differs
\* from the response the same update gets when its sync was applied (200 with
\* the environments), so that the caller can tell a deferred success.
C12_SyncFailureReported ==
    (req.op = "putLinks" /\ rPc = "done" /\ SyncThrew) =>
        rResp # [status |-> 200, envs |-> environmentsToSync]

\* C13: every sync call to a workspace is given all the environments linked
\* to that workspace at that time: when one environment of a workspace with
\* several is updated, the others are pushed too. (Their order is the matter
\* of C7; here only which environments are pushed is stated.)
C13_SyncPushesAllLinked ==
    \A i \in 1..Len(rSync) : Range(rSync[i].envs) = Range(links[rSync[i].ws])

(***************************************************************************)
(* Properties of the variables payload and of request validation.          *)
(***************************************************************************)
\* The texts of JSON objects mapping strings to strings
StringMapTexts == {"{}", "{\"A\":\"1\"}", "{\"A\":\"2\"}"}

\* C18: the persisted variables payload of every environment is a JSON
\* object mapping strings to strings, whatever bodies the create and update
\* requests carried.
C18_StoredVariablesAreStringMaps ==
    \A i \in 1..Len(environments) : environments[i].variables \in StringMapTexts

IsSessionId(s) ==
    /\ Len(s) >= 5
    /\ SubSeq(s, 1, 4) = <<115, 101, 115, 95>>
    /\ \A k \in 5..Len(s) : IsTokenChar(s[k])

\* s[i..j] has the session-id form
HasIdAt(s, i, j) ==
    /\ 1 <= i /\ i + 4 <= j /\ j <= Len(s)
    /\ IsSessionId(SubSeq(s, i, j))

\* The handler ran to its end without an engine call throwing
ProbeAnswered == pPc = "done" /\ pResp.status = 200 /\ pThrew = "none"

\* C1: when creating or starting either exec (primary or fallback) throws,
\* the probe answers 200 with sessionId = null, never an error response.
C1_EngineFailureAnswersAbsent ==
    (pPc = "done" /\ pThrew # "none") =>
        pResp = [status |-> 200, error |-> "", sessionId |-> Null]

\* C1 witness: the fallback's exec.start threw, after the primary strategy
\* had run, and the probe has answered.
C1_Witness == pPc = "done" /\ pThrew = "start2" /\ pFallback /\ pResp.status = 200

\* C2: when the primary strategy's exec call throws, the fallback strategy is
\* attempted before the probe returns.
C2_PrimaryFailureFallsBack ==
    (pPc = "done" /\ pThrew \in {"exec1", "start1"}) => pFallback

\* C3: whenever the primary output is not a valid session id the fallback is
\* attempted; a valid fallback output is returned; if neither is valid the
\* probe returns no session.
C3_InvalidPrimaryFallsBack ==
    (ProbeAnswered /\ ~IsSessionId(pPrimary)) =>
        /\ pFallback
        /\ IsSessionId(findResult) => pResp.sessionId = Str(findResult)
        /\ ~IsSessionId(findResult) => pResp.sessionId = Null

\* C4: every session id the probe returns is null or 'ses_' followed by one
\* or more alphanumeric/underscore characters and nothing else.
C4_ReturnedIdWellFormed ==
    pResp.sessionId.isNull \/ IsSessionId(pResp.sessionId.str)

\* C4 witness: the probe returned an id, taken from a candidate that holds
\* more than the id.
C4_Witness ==
    /\ ProbeAnswered
    /\ ~pResp.sessionId.isNull
    /\ pResp.sessionId.str # sessionId

C6_ProbeNeverWaitsForEver ==
    pPc \notin {"idle", "done"} => ENABLED ProbeStep

(***************************************************************************)
(* Properties of the demultiplexing of the exec stream.                    *)
(***************************************************************************)
\* Bytes 4-7 of the header at the start of these bytes: big-endian length L
PayloadLength(bytes) ==
    bytes[5] * 16777216 + bytes[6] * 65536 + bytes[7] * 256 + bytes[8]

\* The framing of a byte stream: its complete frames (8-byte header, then L
\* payload bytes), and the bytes left after the last complete frame
RECURSIVE SplitFrames(_)
SplitFrames(bytes) ==
    IF Len(bytes) < 8 \/ Len(bytes) - 8 < PayloadLength(bytes)
    THEN [frames |-> <<>>, rest |-> bytes]
    ELSE LET L    == PayloadLength(bytes)
             next == SplitFrames(SubSeq(bytes, 9 + L, Len(bytes)))
         IN  [frames |-> <<[type |-> bytes[1], payload |-> SubSeq(bytes, 9, 8 + L)]>>
                         \o next.frames,
              rest   |-> next.rest]

\* The payloads of the frames of these stream types, in frame order
RECURSIVE PayloadsOf(_, _)
PayloadsOf(frames, types) ==
    IF frames = <<>> THEN <<>>
    ELSE (IF Head(frames).type \in types THEN Head(frames).payload ELSE <<>>)
         \o PayloadsOf(Tail(frames), types)

\* The frames of these stream types, as bytes
RECURSIVE FramesAsBytes(_, _)
FramesAsBytes(frames, types) ==
    IF frames = <<>> THEN <<>>
    ELSE (IF Head(frames).type \in types
          THEN Frame(Head(frames).type, Head(frames).payload)
          ELSE <<>>)
         \o FramesAsBytes(Tail(frames), types)

\* execAndParse has returned for the stream pRaw, and what it returned
ExecAndParseReturned == pPc \in {"exec2", "start2"} \/ ProbeAnswered
LastOutput == IF pPc = "done" /\ pFallback THEN findResult ELSE pPrimary

\* The text of these bytes, as the probe keeps it (white space at both ends
\* is not kept)
TextOf(bytes) == Trim([i \in 1..Len(bytes) |-> IF bytes[i] < 128 THEN bytes[i] ELSE 65533])

\* C14: the payload of a frame whose stream type is neither 1 nor 2
\* contributes nothing: the text extracted from a stream of complete frames
\* is the text extracted from that stream without those frames.
C14_OtherTypesIgnored ==
    (ExecAndParseReturned /\ SplitFrames(pRaw).rest = <<>>) =>
        LastOutput = ExecAndParse(<<FramesAsBytes(SplitFrames(pRaw).frames, {1, 2})>>)

\* C15: from a stream of complete frames, however it was cut into chunks,
\* the text extracted is the stdout and stderr payloads in frame order, with
\* no header byte.
C15_PayloadsInFrameOrder ==
    (ExecAndParseReturned /\ SplitFrames(pRaw).rest = <<>>) =>
        LastOutput = TextOf(PayloadsOf(SplitFrames(pRaw).frames, {1, 2}))

\* The bytes of a frame cut short that are appended: all of them when the
\* header is cut, the payload bytes that arrived when the payload is cut
CutFrameText(rest) == IF Len(rest) < 8 THEN rest ELSE SubSeq(rest, 9, Len(rest))

\* C16: when the stream ends in the middle of a frame (in its header or in
\* its payload), the text extracted is the payloads of the frames before it
\* followed by the remaining bytes as raw text, and execAndParse returns.
C16_CutFrameAppended ==
    (ExecAndParseReturned /\ SplitFrames(pRaw).rest # <<>>) =>
        LastOutput = TextOf(PayloadsOf(SplitFrames(pRaw).frames, 0..255)
                            \o CutFrameText(SplitFrames(pRaw).rest))

\* C16 witness: the primary strategy's stream ended in a cut frame after a
\* complete frame, and the probe answered from the text of both.
C16_Witness ==
    /\ ProbeAnswered
    /\ ~pFallback
    /\ SplitFrames(pRaw).frames # <<>>
    /\ SplitFrames(pRaw).rest # <<>>
    /\ Len(pPrimary) = Len(SplitFrames(pRaw).frames[1].payload) + Len(SplitFrames(pRaw).rest)

(***************************************************************************)
(* Properties of the readers of a stored variables payload.                *)
(***************************************************************************)
\* The payloads that are JSON texts
ValidJsonTexts == {"{}", "{\"A\":\"1\"}", "{\"A\":\"2\"}", "{\"A\":1}", "null", "[]", "[\"a\"]", "1"}

\* The payload the i-th result of the dashboard function applied last was read from
PayloadRead(i) ==
    IF rendered.by = "list" THEN initialEnvironments[i] ELSE initialEnvironments[rendered.env]

\* C17: every reader of a stored variables payload (parseVariables, the
\* variable counts of the dialogs, the variable count of the environment
\* list) reads a payload that is not valid JSON as no variables, and does
\* not raise.
C17_InvalidJsonReadAsEmpty ==
    \A i \in 1..Len(rendered.results) :
        PayloadRead(i) \notin ValidJsonTexts =>
            /\ ~rendered.results[i].threw
            /\ rendered.results[i].count = 0
            /\ ~rendered.threw

(***************************************************************************)
(* Properties of merge.                                                    *)
(***************************************************************************)
\* The positions of the environments that define this key
Definers(envs, k) == {i \in 1..Len(envs) : k \in DOMAIN envs[i]}

\* Two mappings differ at this key
DifferAt(m1, m2, k) ==
    \/ (k \in DOMAIN m1) # (k \in DOMAIN m2)
    \/ k \in DOMAIN m1 /\ k \in DOMAIN m2 /\ m1[k] # m2[k]

\* C20: merge gives each key the value of the last environment, in the given
\* order, that defines it; the keys of the result are the union of the
\* environments' keys; the empty list gives the empty mapping; the list in
\* another order gives another value only to keys that more than one
\* environment defines.
C20_LastWriterWins ==
    merged.applied =>
        LET envs == orderedEnvironments
            out  == merged.result
        IN  /\ DOMAIN out = UNION {DOMAIN envs[i] : i \in 1..Len(envs)}
            /\ \A k \in DOMAIN out :
                \E i \in Definers(envs, k) :
                    /\ out[k] = envs[i][k]
                    /\ \A j \in Definers(envs, k) : j <= i
            /\ envs = <<>> => out = EmptyMap
            /\ \A k \in VariableNames :
                DifferAt(out, merged.reordered, k) => Cardinality(Definers(envs, k)) > 1

\* C20 witness: three environments were merged, one key defined by two of
\* them with different values and one key by one only, and the list in
\* another order gave another result.
C20_Witness ==
    /\ merged.applied
    /\ Len(orderedEnvironments) = 3
    /\ merged.result # merged.reordered
    /\ \E k \in VariableNames : Cardinality(Definers(orderedEnvironments, k)) = 1
    /\ \E k \in VariableNames :
        /\ Cardinality(Definers(orderedEnvironments, k)) = 2
        /\ \E i, j \in Definers(orderedEnvironments, k) :
            orderedEnvironments[i][k] # orderedEnvironments[j][k]

(***************************************************************************)
(* Properties of the configuration update's writes.                        *)
(***************************************************************************)
\* C26: a configuration update is never partially applied: when the insert
\* of the new links fails after the delete of the old ones succeeded, the
\* workspace's link set after the request equals its link set before.
C26_FailedInsertRestoresLinks ==
    (/\ req.op = "putLinks" /\ rPc = "done" /\ rResp.status >= 400
     /\ Len(req.ids) > 0 /\ rWrites = 1) =>
        Range(links[req.ws]) = Range(rLinksBefore[req.ws])

\* Some id occurs twice in the list
HasDuplicate(ids) ==
    \E i, j \in 1..Len(ids) : i # j /\ ids[i] = ids[j]

\* The request served is a configuration update, by the owner of the
\* workspace, whose list has a duplicate id, and is past the workspace lookup
DuplicateIdUpdate ==
    /\ req.op = "putLinks" /\ req.isArray /\ HasDuplicate(req.ids)
    /\ FindWorkspace(req.ws, req.caller)
    /\ rPc \notin {"idle", "auth", "body", "findWorkspace"}

\* C30: a configuration update whose list has a duplicate id never gets past
\* the ownership check: it is answered 403 (500 when the store lookup itself
\* throws), with every link as it was, no store write and no sync call, even
\* when the caller owns every id of the list.
C30_DuplicateIdRejected ==
    DuplicateIdUpdate =>
        /\ rPc \in {"verify", "done"}
        /\ rPc = "done" => rResp.status \in {403, 500}
        /\ links = rLinksBefore
        /\ rWrites = 0
        /\ rSync = <<>>

\* C30 witness: the owner of a workspace that has links sent a list naming
\* one of their own environments twice, and was answered 403.
C30_Witness ==
    /\ DuplicateIdUpdate /\ rPc = "done" /\ rResp.status = 403
    /\ \A i \in 1..Len(req.ids) : OwnedBy(req.ids[i], req.caller)
    /\ links[req.ws] # <<>>

(***************************************************************************)
(* Properties of the sync loop of the environment update.                  *)
(***************************************************************************)
\* The workspaces linked to the environment of the request whose status is
\* running
RunningLinked ==
    {w \in WorkspacesLinkedTo(req.env) : workspaces[w].status = "running"}

\* The request served is an environment update that got past its store write
UpdateWritten == req.op = "putEnvironment" /\ rWrites = 1

\* C29: an environment update attempts one sync for every workspace linked
\* to the environment whose status is running, and for no other; a sync
\* call that throws neither keeps the remaining ones from being attempted
\* nor fails the update, which is answered 200.
C29_SyncEveryRunningLinked ==
    /\ (UpdateWritten /\ rPc = "syncLoop") =>
            \A i \in 1..Len(rSync) : rSync[i].ws \in RunningLinked
    /\ (UpdateWritten /\ rPc = "done") =>
            /\ {rSync[i].ws : i \in 1..Len(rSync)} = RunningLinked
            /\ Len(rSync) = Cardinality(RunningLinked)
            /\ rResp.status = 200

\* C29 witness: the environment updated is linked to two running workspaces
\* and a stopped one; the first sync call threw, the second was made all the
\* same, and the update was answered 200.
C29_Witness ==
    /\ UpdateWritten /\ rPc = "done" /\ rResp.status = 200
    /\ Cardinality(RunningLinked) = 2
    /\ WorkspacesLinkedTo(req.env) \ RunningLinked # {}
    /\ Len(rSync) = 2 /\ ~rSync[1].ok

(***************************************************************************)
(* Properties of access control.                                           *)
(***************************************************************************)
\* The environment with this id was in the store, and belonged to this user,
\* when the request arrived
OwnedBefore(e, u) ==
    \E i \in 1..Len(rEnvsBefore) : rEnvsBefore[i].id = e /\ rEnvsBefore[i].userId = u

\* The workspace with this id exists and belongs to this user
OwnsWorkspace(w, u) ==
    w \in DOMAIN workspaces /\ workspaces[w].userId = u

EnvironmentOps == {"getEnvironment", "putEnvironment", "deleteEnvironment"}
WorkspaceOps == {"getLinks", "putLinks"}

\* The store request served addresses an environment or a workspace, and its
\* caller has no session or does not own what it addresses
ForeignRequest ==
    /\ req.op \in EnvironmentOps \cup WorkspaceOps
    /\ \/ req.caller = NoUser
       \/ req.op \in EnvironmentOps /\ ~OwnedBefore(req.env, req.caller)
       \/ req.op \in WorkspaceOps /\ ~OwnsWorkspace(req.ws, req.caller)

\* The probe served was asked by a caller with no session or for a workspace
\* the caller does not own
ForeignProbe ==
    /\ pPc # "idle"
    /\ pCaller = NoUser \/ ~OwnsWorkspace(pWs, pCaller)

\* The request served has written nothing to the store, read nothing for its
\* caller and synced nothing
NothingDone ==
    /\ rWrites = 0
    /\ rSync = <<>>
    /\ rResp.envs = <<>>
    /\ environments = rEnvsBefore
    /\ links = rLinksBefore

\* The probe served has made no exec in a container
NoExec ==
    /\ pPc \in {"auth", "lookup", "done"}
    /\ wire = <<>>
    /\ pResp.sessionId.isNull

\* C28, as claimed: a request for an environment or workspace the caller does
\* not own, or of a caller with no session, is answered 401 or 404 without
\* store write or container exec. (The 500 of a lookup that throws is not
\* held against the claim.)
C28_ForeignAnswered401Or404 ==
    /\ ForeignRequest =>
        /\ NothingDone
        /\ rPc = "done" => rResp.status \in {401, 404, 500}
    /\ ForeignProbe =>
        /\ NoExec
        /\ pPc = "done" => pResp.status \in {401, 404}

\* C28, amended: such a request is answered with an error and no data,
\* without store write or container exec. The error is 401 or 404, or 400
\* for a link update whose environmentIds is not an array (the body is
\* checked before the workspace is looked up), or 500 when the lookup itself
\* throws.
C28_ForeignRefused ==
    /\ ForeignRequest =>
        /\ NothingDone
        /\ rPc = "done" =>
            \/ rResp.status \in {401, 404, 500}
            \/ rResp.status = 400 /\ req.op = "putLinks" /\ ~req.isArray
    /\ ForeignProbe =>
        /\ NoExec
        /\ pPc = "done" => pResp.status \in {401, 404}

\* C28 witness: a signed-in user asked to delete an environment of another
\* user that is linked to a workspace, and was answered 404.
C28_Witness ==
    /\ ForeignRequest /\ rPc = "done" /\ rResp.status = 404
    /\ req.op = "deleteEnvironment" /\ req.caller # NoUser
    /\ \E i \in 1..Len(environments) : environments[i].id = req.env
    /\ WorkspacesLinkedTo(req.env) # {}

(***************************************************************************)
(* Properties of configuration updates served at the same time.            *)
(***************************************************************************)
\* Both requests in service are configuration updates of the same workspace,
\* and both were answered 200
BothUpdated ==
    /\ req.op = "putLinks" /\ req2.op = "putLinks" /\ req.ws = req2.ws
    /\ rPc = "done" /\ rResp.status = 200
    /\ rPc2 = "done" /\ rResp2.status = 200

\* C27: once two configuration updates of the same workspace with lists L1
\* and L2 have both finished, however their steps were interleaved, the
\* workspace's link set is the set of L1 or the set of L2: no union or
\* mixture, and not empty when both lists are non-empty.
C27_OneOfTheTwoLists ==
    BothUpdated => Range(links[req.ws]) \in {Range(req.ids), Range(req2.ids)}

(***************************************************************************)
(* Properties of the routing hosts.                                        *)
(***************************************************************************)
\* C25: for a fixed base domain, the hosts built for two distinct workspace
\* ids are never the same text, whether they are hosts of the same role or
\* of the two roles.
C25_HostsInjective ==
    \A k, l \in 1..Len(routeHosts) :
        routeHosts[k].id # routeHosts[l].id => routeHosts[k].host # routeHosts[l].host

\* C25 witness: the hosts of both roles were built for two ids of the same
\* length that differ in their last character only, one ending in a hyphen.
C25_Witness ==
    /\ Len(routeHosts) = 2 * Cardinality(Roles)
    /\ routeIds[1] # routeIds[2]
    /\ Len(routeIds[1]) = MaxIdLen /\ Len(routeIds[2]) = MaxIdLen
    /\ \A j \in 1..(MaxIdLen - 1) : routeIds[1][j] = routeIds[2][j]
    /\ routeIds[1][MaxIdLen] = "-"

(***************************************************************************)
(* Properties of the workspace lifecycle.                                  *)
(***************************************************************************)
\* C21: create persists running only after both containers were started;
\* when a step of create fails, error is the status persisted, cleanup of
\* the containers left was attempted, and running was never persisted by
\* that create.
C21_RunningOnlyAfterBothStarted ==
    /\ (life.op = "create" /\ "running" \in Range(life.persisted)) =>
            life.started = Roles /\ ~life.failed
    /\ (life.op = "create" /\ life.failed) =>
            /\ wsStatus # "running"
            /\ "running" \notin Range(life.persisted)
            /\ life.pc \in {"cleanup", "persistFailure", "done"}
    /\ (life.op = "create" /\ life.failed /\ life.pc = "done") =>
            /\ wsStatus = "error"
            /\ life.persisted = <<"error">>
            /\ life.cleaned
            /\ life.result = "failed"

\* C21 witness: a create started container 1 and failed to start container
\* 2; it ended with status error, cleanup attempted.
C21_Witness ==
    /\ life.op = "create" /\ life.pc = "done" /\ life.failed
    /\ life.started = {"opencode"}
    /\ Len(life.answers) = Len(Plan("create"))
    /\ wsStatus = "error" /\ life.cleaned

\* C22: a delete none of whose engine calls failed with a transient error
\* marks the workspace deleted and succeeds, whichever of the two containers
\* were absent ('not found' on remove counts as success), and leaves no
\* container.
C22_DeleteToleratesAbsent ==
    (/\ life.op = "delete" /\ life.pc = "done" /\ life.result # "rejected"
     /\ "transient" \notin Range(life.answers)) =>
        /\ wsStatus = "deleted"
        /\ life.result = "ok"
        /\ \A r \in Roles : containers[r] = "absent"

\* C22 witness: after a create that failed with container 1 running and
\* container 2 missing, a delete removed container 1, was answered 'not
\* found' for container 2, and succeeded.
C22_Witness ==
    /\ life.op = "delete" /\ life.pc = "done" /\ life.result = "ok"
    /\ life.prior = "error"
    /\ life.before = [r \in Roles |-> IF r = "opencode" THEN "running" ELSE "absent"]
    /\ life.answers = <<"ok", "notFound">>
    /\ wsStatus = "deleted"

\* C23: a stop asked of a workspace whose status is stopped succeeds at once,
\* with no engine call made and the status left stopped, however many times
\* in a row it is asked.
C23_StopIdempotent ==
    (life.op = "stop" /\ life.prior = "stopped") =>
        /\ life.pc = "done"
        /\ life.result = "ok"
        /\ life.calls = 0
        /\ wsStatus = "stopped"
        /\ stopCalls \in 1..MaxStops

\* C23 witness: a stopped workspace with a stopped container was asked to
\* stop several times in a row.
C23_Witness ==
    /\ life.op = "stop" /\ life.prior = "stopped" /\ life.pc = "done"
    /\ stopCalls = MaxStops
    /\ \E r \in Roles : containers[r] = "stopped"

\* The status changes the claim names, other than those to error
ClaimedSteps ==
    {<<"creating", "running">>, <<"running", "stopped">>, <<"stopped", "running">>,
     <<"running", "deleted">>, <<"stopped", "deleted">>}

\* This change of status is one of those of the set, or a change to error by
\* an operation that failed; it does not leave deleted, and it does not go
\* from creating to running unless both containers were started
StatusStepWithin(steps) ==
    wsStatus' # wsStatus =>
        /\ \/ <<wsStatus, wsStatus'>> \in steps
           \/ wsStatus' = "error" /\ life'.result = "failed"
        /\ wsStatus # "deleted"
        /\ (wsStatus = "creating" /\ wsStatus' = "running") => life'.started = Roles

\* C24, as claimed: the persisted status changes only along creating ->
\* running, running -> stopped, stopped -> running, running/stopped ->
\* deleted, or to error on a failed transition; deleted is never left, and
\* running is not reached from creating without both containers started.
C24_StatusStepsAsClaimed == [][StatusStepWithin(ClaimedSteps)]_vars

\* C24, amended: as claimed, with error -> deleted among the changes (the
\* delete of a workspace whose create failed).
C24_StatusSteps == [][StatusStepWithin(ClaimedSteps \cup {<<"error", "deleted">>})]_vars

\* C24 witness: the workspace was deleted, and a start asked afterwards was
\* refused, the status staying deleted.
C24_Witness ==
    /\ wsStatus = "deleted"
    /\ life.op = "start" /\ life.prior = "deleted" /\ life.result = "rejected"

====
